---- MODULE Spec2Model ----
(***************************************************************************)
(* uni-api (src/api/index.py): an OpenAI-compatible gateway.  The module   *)
(* models the process-wide key settings, the in-memory config store, the   *)
(* three-tier model resolution, the /v1 proxy handler, the cookie-guarded  *)
(* admin endpoints and the bearer-guarded debug endpoints.                 *)
(***************************************************************************)
EXTENDS Integers, Sequences, FiniteSets, TLC

VARIABLES
    ADMIN_API_KEY,      \* index.py:58, read once from the environment
    ALLOWED_API_KEYS,   \* index.py:51-66, read once from the environment
    in_memory_db,       \* index.py:131-134: [api_configs, model_mappings]
    now,                \* the clock datetime.now() reads, in seconds
    pc,                 \* where the /v1 request in flight is suspended
    request,            \* the /v1 request in flight: method, path, headers, body
    call,               \* its selected config and the outbound call prepared from it
    events,             \* what the /v1 request in flight has done so far
    relay,              \* the streaming relay: client, chunks read, chunks yielded
    resp,               \* the last completed response, with its request
    res                 \* outcome of the last get_random_config_for_model call

vars == <<ADMIN_API_KEY, ALLOWED_API_KEYS, in_memory_db, now, pc, request, call,
          events, relay, resp, res>>

keyVars == <<ADMIN_API_KEY, ALLOWED_API_KEYS>>
proxyVars == <<pc, request, call, events, relay>>

(***************************************************************************)
(* Bounds of the model.                                                    *)
(***************************************************************************)
MaxConfigs == 2
MaxChunks == 2
MaxClock == 1

(***************************************************************************)
(* Values.                                                                 *)
(***************************************************************************)
Range(s) == {s[i] : i \in DOMAIN s}

\* An empty dict; a config whose model_mappings is None reads the same at
\* index.py:340 (both are falsy).
EmptyDict == <<>>

ModelNames == {"chat-fast", "gpt-x"}
VendorIds == {"a", "b"}

\* base_url as its sequence of text pieces, api_key as a string.
KeyOfIndex(i) == CASE i = 1 -> "sk-1" [] i = 2 -> "sk-2" [] OTHER -> "sk-3"
UrlOfVendor(v) == IF v = "a" THEN <<"https://a.example", "/">> ELSE <<"https://b.example">>

NoConfig ==
    [id |-> 0, api_key |-> "", base_url |-> <<>>, models |-> {}, vendor |-> "",
     model_mappings |-> EmptyDict, created_at |-> 0]

(***************************************************************************)
(* Text.  A header value is the sequence of its words and of the blanks    *)
(* between them; no two words are adjacent.                                *)
(***************************************************************************)
SP == " "

\* str.split(): the words of the text, blanks dropped.
Split(text) == SelectSeq(text, LAMBDA t : t # SP)

\* str.lower() on the header names and auth schemes of the model.
Lower(s) ==
    CASE s = "Authorization"  -> "authorization"
      [] s = "AUTHORIZATION"  -> "authorization"
      [] s = "Content-Length" -> "content-length"
      [] s = "CONTENT-LENGTH" -> "content-length"
      [] s = "Host"           -> "host"
      [] s = "HOST"           -> "host"
      [] s = "X-Trace"        -> "x-trace"
      [] s = "Bearer"         -> "bearer"
      [] s = "BEARER"         -> "bearer"
      [] s = "Basic"          -> "basic"
      [] OTHER                -> s

\* f"Bearer {key}"
BearerText(key) == <<"Bearer", SP, key>>

(***************************************************************************)
(* Headers.  The request arrives as a list of (name, value) lines.         *)
(***************************************************************************)
HeaderLine(name, value) == [name |-> name, value |-> value]

\* request.headers: the lines of the request with their names in lower case,
\* as the ASGI server hands them to the Request (index.py:390, 453).
RequestHeaders(wire) ==
    [i \in DOMAIN wire |-> HeaderLine(Lower(wire[i].name), wire[i].value)]

\* request.headers.get(key): the first line of that name, compared in lower
\* case; present is FALSE for None.
HeadersGet(headers, key) ==
    LET hits == {i \in DOMAIN headers : headers[i].name = Lower(key)}
    IN  IF hits = {} THEN [present |-> FALSE, value |-> <<>>]
        ELSE [present |-> TRUE,
              value |-> headers[CHOOSE i \in hits : \A j \in hits : i <= j].value]

\* dict(request.headers): one entry per name, holding the first value.
HeadersDict(headers) ==
    [k \in {headers[i].name : i \in DOMAIN headers} |-> HeadersGet(headers, k).value]

\* d.pop(key, None)
DictPop(d, key) == [k \in DOMAIN d \ {key} |-> d[k]]

\* d[key] = value
DictSet(d, key, value) == [k \in DOMAIN d \cup {key} |-> IF k = key THEN value ELSE d[k]]

\* [k for k in d.keys() if k.lower() == name], then d.pop(k) for each.
DictPopVariants(d, name) == [k \in {x \in DOMAIN d : Lower(x) # name} |-> d[k]]

(***************************************************************************)
(* Bodies.  The bytes of a body are empty, the text of a JSON object (its  *)
(* members in order, written compactly or with the blanks json.dumps       *)
(* writes), or bytes that are not JSON.                                    *)
(***************************************************************************)
StrVal(s) == <<"str", s>>
BoolVal(b) == <<"bool", IF b THEN "true" ELSE "false">>

EmptyBody == [kind |-> "empty", style |-> "compact", members |-> <<>>]
GarbageBody == [kind |-> "garbage", style |-> "compact", members |-> <<>>]
JsonBody(style, members) == [kind |-> "json", style |-> style, members |-> members]

\* bool(body) of a bytes object.
BodyNonEmpty(body) == body.kind # "empty"

\* A dict is the sequence of its (key, value) items in insertion order.
DictHas(d, key) == \E i \in DOMAIN d : d[i][1] = key
DictGet(d, key, default) ==
    IF DictHas(d, key) THEN d[CHOOSE i \in DOMAIN d : d[i][1] = key][2] ELSE default
DictPut(d, key, value) ==
    IF DictHas(d, key)
    THEN [i \in DOMAIN d |-> IF d[i][1] = key THEN <<key, value>> ELSE d[i]]
    ELSE Append(d, <<key, value>>)

\* json.loads of an object: members in order, a repeated key keeps its first
\* place and its last value.
RECURSIVE LoadMembers(_, _)
LoadMembers(d, members) ==
    IF members = <<>> THEN d
    ELSE LoadMembers(DictPut(d, Head(members)[1], Head(members)[2]), Tail(members))

JsonLoads(body) == LoadMembers(<<>>, body.members)

\* json.dumps(d).encode(): the items in order, separated by ", " and ": ".
JsonDumps(d) == JsonBody("spaced", d)

\* len() of the text of a value: a quoted string, or true / false.
ValueLen(v) == IF v[1] = "str" THEN Len(v[2]) + 2 ELSE Len(v[2])

RECURSIVE MembersLen(_, _)
MembersLen(members, sep) ==
    IF members = <<>> THEN 0
    ELSE (Len(Head(members)[1]) + 2) + sep + ValueLen(Head(members)[2])
         + (IF Len(members) > 1 THEN sep ELSE 0)
         + MembersLen(Tail(members), sep)

\* len(body): the number of bytes of the body.
BodyLen(body) ==
    CASE body.kind = "empty"   -> 0
      [] body.kind = "garbage" -> 3
      [] OTHER -> 2 + MembersLen(body.members, IF body.style = "compact" THEN 1 ELSE 2)

\* Truth value of a JSON value (a missing key reads as the default "").
Truthy(v) == v # StrVal("") /\ v # BoolVal(FALSE)

(***************************************************************************)
(* get_random_config_for_model, index.py:324-383.                          *)
(***************************************************************************)
\* random.choice(list): any element of the list.
RandomChoice(list) == Range(list)

\* Mutant: the loop of lines 338-346 without the check of line 344.
RECURSIVE ConfigsWithDirectMappingUnchecked(_, _)
ConfigsWithDirectMappingUnchecked(model, configs) ==
    IF configs = <<>> THEN <<>>
    ELSE LET config == Head(configs)
             rest == ConfigsWithDirectMappingUnchecked(model, Tail(configs))
         IN  IF model \in DOMAIN config.model_mappings
             THEN <<<<config, config.model_mappings[model]>>>> \o rest
             ELSE rest

\* Lines 337-346: the (config, actual_model) pairs of the configs whose own
\* model_mappings hold the model and whose models hold the mapped name.
RECURSIVE ConfigsWithDirectMapping(_, _)
ConfigsWithDirectMapping(model, configs) ==
    IF configs = <<>> THEN <<>>
    ELSE LET config == Head(configs)
             rest == ConfigsWithDirectMapping(model, Tail(configs))
         IN  IF /\ model \in DOMAIN config.model_mappings
                /\ config.model_mappings[model] \in config.models
             THEN <<<<config, config.model_mappings[model]>>>> \o rest
             ELSE rest

\* Lines 361-364: the configs of one vendor that support vendor_model.
RECURSIVE MatchingVendorConfigs(_, _, _)
MatchingVendorConfigs(vendor, vendor_model, configs) ==
    IF configs = <<>> THEN <<>>
    ELSE LET c == Head(configs)
             rest == MatchingVendorConfigs(vendor, vendor_model, Tail(configs))
         IN  IF c.vendor = vendor /\ vendor_model \in c.models
             THEN <<<<c, vendor_model>>>> \o rest
             ELSE rest

\* Lines 358-367: vendor_configs, as the set of its elements (the loop runs
\* over the items of the dict mappings[model]).
VendorConfigs(model, configs, mappings) ==
    UNION {Range(MatchingVendorConfigs(vendor, mappings[model][vendor], configs)) :
             vendor \in DOMAIN mappings[model]}

\* Mutant: line 376 without its test, every config paired with the model.
MatchingConfigsUntested(model, configs) ==
    [i \in DOMAIN configs |-> <<configs[i], model>>]

\* Line 376: the configs whose models hold the model itself.
RECURSIVE MatchingConfigs(_, _)
MatchingConfigs(model, configs) ==
    IF configs = <<>> THEN <<>>
    ELSE LET c == Head(configs)
             rest == MatchingConfigs(model, Tail(configs))
         IN  IF model \in c.models THEN <<<<c, model>>>> \o rest ELSE rest

\* Mutant: the global mapping is consulted before the config-local one.
GetRandomConfigForModelGlobalFirst(model) ==
    LET configs == in_memory_db.api_configs
        mappings == in_memory_db.model_mappings
        direct == ConfigsWithDirectMapping(model, configs)
        vendor_configs ==
            IF model \in DOMAIN mappings
            THEN VendorConfigs(model, configs, mappings) ELSE {}
    IN  IF vendor_configs # {} THEN vendor_configs
        ELSE IF direct # <<>> THEN RandomChoice(direct)
        ELSE RandomChoice(MatchingConfigs(model, configs))

\* Mutant: a model found in the global mapping is answered from it alone,
\* with 404 when none of its pairs matches a config.
GetRandomConfigForModelStopsAtGlobal(model) ==
    LET configs == in_memory_db.api_configs
        mappings == in_memory_db.model_mappings
        configs_with_direct_mapping == ConfigsWithDirectMapping(model, configs)
    IN  IF configs_with_direct_mapping # <<>>
        THEN RandomChoice(configs_with_direct_mapping)
        ELSE IF model \in DOMAIN mappings THEN VendorConfigs(model, configs, mappings)
        ELSE RandomChoice(MatchingConfigs(model, configs))

\* The pairs get_random_config_for_model(model) may return on the current
\* store; the empty set stands for HTTPException(404) of line 379.
GetRandomConfigForModel(model) ==
    LET configs == in_memory_db.api_configs
        mappings == in_memory_db.model_mappings
        configs_with_direct_mapping == ConfigsWithDirectMapping(model, configs)
        vendor_configs ==
            IF model \in DOMAIN mappings
            THEN VendorConfigs(model, configs, mappings) ELSE {}
    IN  IF configs_with_direct_mapping # <<>>
        THEN RandomChoice(configs_with_direct_mapping)
        ELSE IF vendor_configs # {} THEN vendor_configs
        ELSE RandomChoice(MatchingConfigs(model, configs))

NoRes == [done |-> FALSE, model |-> "", found |-> FALSE, config |-> NoConfig, actual |-> ""]

\* One call of get_random_config_for_model(model): its return value or its 404.
Resolve(model) ==
    /\ LET cands == GetRandomConfigForModel(model)
       IN  IF cands = {}
           THEN res' = [done |-> TRUE, model |-> model, found |-> FALSE,
                        config |-> NoConfig, actual |-> ""]
           ELSE \E p \in cands :
                  res' = [done |-> TRUE, model |-> model, found |-> TRUE,
                          config |-> p[1], actual |-> p[2]]
    /\ UNCHANGED <<ADMIN_API_KEY, ALLOWED_API_KEYS, in_memory_db, now, resp>>
    /\ UNCHANGED proxyVars

(***************************************************************************)
(* Responses.  A JSON body is the sequence of its (key, value) items.      *)
(***************************************************************************)
\* raise HTTPException(status_code, detail): FastAPI answers {"detail": ...}.
HttpException(status, detail) ==
    [status |-> status, kind |-> "http_exception", body |-> <<<<"detail", detail>>>>]

\* JSONResponse(content={"error": ..., "message": ...}, status_code=...)
ErrorEnvelope(status, error, message) ==
    [status |-> status, kind |-> "error_envelope",
     body |-> <<<<"error", error>>, <<"message", message>>>>]

\* An exception no handler catches: the server's bare 500.
Unhandled == [status |-> 500, kind |-> "unhandled", body |-> <<>>]

\* str(e) of the exceptions the handlers catch.
StrOfHttpException(status, detail) == <<status, detail>>

NoRequest == [method |-> "", path |-> "", headers |-> <<>>, body |-> EmptyBody]
NoCall ==
    [config |-> NoConfig, actual_model |-> "", method |-> "", url |-> <<>>,
     headers |-> <<>>, body |-> EmptyBody, is_stream |-> FALSE]
NoRelay == [client |-> "none", got |-> <<>>, sent |-> <<>>]
\* What a response puts on the wire besides its status, where the handler
\* sets it itself: the headers given to the response and the text rendered.
NoWire == [headers |-> <<>>, text |-> EmptyBody]
WireOf(r) == IF "wire" \in DOMAIN r THEN r.wire ELSE NoWire

NoResp ==
    [endpoint |-> "", req |-> NoRequest, status |-> 0, kind |-> "", body |-> <<>>,
     wire |-> NoWire, events |-> <<>>, call |-> NoCall, relay |-> NoRelay]

\* The response of the /v1 handler to request req.
ProxyResp(req, r, ev, c, rl) ==
    [endpoint |-> "openai_proxy", req |-> req, status |-> r.status, kind |-> r.kind,
     body |-> r.body, wire |-> WireOf(r), events |-> ev, call |-> c, relay |-> rl]

(***************************************************************************)
(* The auth gate of openai_proxy, index.py:390-424.                        *)
(***************************************************************************)
Deny(status, detail) == [ok |-> FALSE, status |-> status, detail |-> detail, api_key |-> ""]
Allow(key) == [ok |-> TRUE, status |-> 200, detail |-> "", api_key |-> key]

\* Mutant: the gate without the key check of lines 415-419.
OpenAIProxyAuthAnyKey(headers) ==
    LET auth_header == HeadersGet(headers, "Authorization")
        parts == Split(auth_header.value)
    IN  IF ~auth_header.present \/ auth_header.value = <<>>
        THEN Deny(401, "missing credentials")
        ELSE IF Len(parts) # 2 THEN Deny(401, "bad format")
        ELSE IF Lower(parts[1]) # "bearer" THEN Deny(401, "bad format")
        ELSE Allow(parts[2])

\* Mutant: the gate taking the last word as the key, whatever the number of
\* words and the scheme.
OpenAIProxyAuthLastWord(headers) ==
    LET auth_header == HeadersGet(headers, "Authorization")
        parts == Split(auth_header.value)
    IN  IF ~auth_header.present \/ auth_header.value = <<>>
        THEN Deny(401, "missing credentials")
        ELSE IF parts = <<>> THEN Deny(401, "bad format")
        ELSE IF ALLOWED_API_KEYS = {} /\ ADMIN_API_KEY = ""
        THEN Deny(401, "no keys configured")
        ELSE IF /\ parts[Len(parts)] # ADMIN_API_KEY
                /\ parts[Len(parts)] \notin ALLOWED_API_KEYS
        THEN Deny(401, "invalid key")
        ELSE Allow(parts[Len(parts)])

OpenAIProxyAuth(headers) ==
    LET auth_header == HeadersGet(headers, "Authorization")
        parts == Split(auth_header.value)
    IN  IF ~auth_header.present \/ auth_header.value = <<>>
        THEN Deny(401, "missing credentials")                   \* lines 391-395
        ELSE IF Len(parts) # 2 THEN Deny(401, "bad format")     \* ValueError, 420-424
        ELSE IF Lower(parts[1]) # "bearer" THEN Deny(401, "bad format")
        ELSE IF ALLOWED_API_KEYS = {} /\ ADMIN_API_KEY = ""
        THEN Deny(401, "no keys configured")                    \* lines 408-412
        ELSE IF parts[2] # ADMIN_API_KEY /\ parts[2] \notin ALLOWED_API_KEYS
        THEN Deny(401, "invalid key")                           \* lines 415-419
        ELSE Allow(parts[2])

(***************************************************************************)
(* The request transformer of openai_proxy, index.py:446-488.              *)
(***************************************************************************)
\* Mutant: the body is re-encoded whether or not the model changed.
TransformBodyAlways(body, body_dict, model, actual_model) ==
    JsonDumps(DictPut(body_dict, "model", StrVal(actual_model)))

\* Lines 447-450.
TransformBody(body, body_dict, model, actual_model) ==
    IF actual_model # model
    THEN JsonDumps(DictPut(body_dict, "model", StrVal(actual_model)))
    ELSE body

\* Mutant: the caller's authorization header is kept.
RewriteHeadersKeepAuth(headers, body, config) ==
    LET h1 == DictPop(HeadersDict(headers), "host")
        h3 == DictPopVariants(h1, "content-length")
        h4 == IF BodyNonEmpty(body)
              THEN DictSet(h3, "Content-Length", <<ToString(BodyLen(body))>>)
              ELSE h3
    IN  DictSet(h4, "Authorization", BearerText(config.api_key))

\* Lines 453-471.
RewriteHeaders(headers, body, config) ==
    LET h0 == HeadersDict(headers)
        h1 == DictPop(h0, "host")
        h2 == DictPopVariants(h1, "authorization")
        h3 == DictPopVariants(h2, "content-length")
        h4 == IF BodyNonEmpty(body)
              THEN DictSet(h3, "Content-Length", <<ToString(BodyLen(body))>>)
              ELSE h3
    IN  DictSet(h4, "Authorization", BearerText(config.api_key))

\* Mutant: the "/" rule is applied to what is left once the "#" is stripped.
TargetUrlStripThenAppend(base_url) ==
    LET stripped == IF base_url # <<>> /\ base_url[Len(base_url)] = "#"
                    THEN SubSeq(base_url, 1, Len(base_url) - 1)
                    ELSE base_url
    IN  IF base_url # <<>> /\ base_url[Len(base_url)] = "#"
           /\ ~(stripped # <<>> /\ stripped[Len(stripped)] = "/")
        THEN stripped
        ELSE IF stripped # <<>> /\ stripped[Len(stripped)] = "/"
        THEN Append(stripped, "chat/completions")
        ELSE Append(stripped, "/v1/chat/completions")

\* Lines 474-483.  A base_url is the sequence of its pieces; a piece is "#",
\* "/" or a text ending with neither.
TargetUrl(base_url) ==
    IF base_url # <<>> /\ base_url[Len(base_url)] = "#"
    THEN SubSeq(base_url, 1, Len(base_url) - 1)
    ELSE IF base_url # <<>> /\ base_url[Len(base_url)] = "/"
    THEN Append(base_url, "chat/completions")
    ELSE Append(base_url, "/v1/chat/completions")

\* Lines 446-488: the call prepared for the selected (config, actual_model).
PrepareCall(req, body_dict, model, config, actual_model) ==
    LET body == TransformBody(req.body, body_dict, model, actual_model)
        new_dict == IF actual_model # model
                    THEN DictPut(body_dict, "model", StrVal(actual_model))
                    ELSE body_dict
    IN  [config |-> config, actual_model |-> actual_model, method |-> req.method,
         url |-> TargetUrl(config.base_url),
         headers |-> RewriteHeaders(RequestHeaders(req.headers), body, config),
         body |-> body,
         is_stream |-> Truthy(DictGet(new_dict, "stream", BoolVal(FALSE)))]

(***************************************************************************)
(* openai_proxy, index.py:386-548.  The handler is suspended where it      *)
(* awaits: the request body, the upstream reply, each streamed chunk.      *)
(***************************************************************************)
\* Mutant: the path check of lines 427-428 placed before the gate.
ProxyBeginPathFirst(req) ==
    /\ pc = "idle"
    /\ LET auth == OpenAIProxyAuth(RequestHeaders(req.headers))
       IN  IF req.path # "chat/completions"
           THEN /\ resp' = ProxyResp(req, HttpException(404, "no such endpoint"),
                                     <<>>, NoCall, NoRelay)
                /\ UNCHANGED proxyVars
           ELSE IF ~auth.ok
           THEN /\ resp' = ProxyResp(req, HttpException(auth.status, auth.detail),
                                     <<>>, NoCall, NoRelay)
                /\ UNCHANGED proxyVars
           ELSE /\ pc' = "body"
                /\ request' = req
                /\ events' = <<"auth_ok">>
                /\ resp' = NoResp
                /\ UNCHANGED <<call, relay>>
    /\ UNCHANGED <<keyVars, in_memory_db, now, res>>

\* Lines 390-431: the auth gate and the path check, up to await request.body().
ProxyBegin(req) ==
    /\ pc = "idle"
    /\ LET auth == OpenAIProxyAuth(RequestHeaders(req.headers))
       IN  IF ~auth.ok
           THEN /\ resp' = ProxyResp(req, HttpException(auth.status, auth.detail),
                                     <<>>, NoCall, NoRelay)
                /\ UNCHANGED proxyVars
           ELSE IF req.path # "chat/completions"
           THEN /\ resp' = ProxyResp(req, HttpException(404, "no such endpoint"),
                                     <<"auth_ok">>, NoCall, NoRelay)
                /\ UNCHANGED proxyVars
           ELSE /\ pc' = "body"
                /\ request' = req
                /\ events' = <<"auth_ok">>
                /\ resp' = NoResp
                /\ UNCHANGED <<call, relay>>
    /\ UNCHANGED <<keyVars, in_memory_db, now, res>>

\* The request in flight ends with response r.
ProxyEnds(r, ev, c, rl) ==
    /\ resp' = ProxyResp(request, r, ev, c, rl)
    /\ pc' = "idle"
    /\ request' = NoRequest
    /\ call' = NoCall
    /\ events' = <<>>
    /\ relay' = NoRelay

\* Mutant: the dispatch that notes a rewritten model in the model_mappings
\* of the selected config, which is the stored object itself.
ProxyDispatchNotesMapping ==
    /\ pc = "body"
    /\ LET body == request.body
           body_dict == IF BodyNonEmpty(body) THEN JsonLoads(body) ELSE <<>>
           model == DictGet(body_dict, "model", StrVal(""))
           cands == GetRandomConfigForModel(model[2])
       IN  IF body.kind = "garbage"
           THEN ProxyEnds(Unhandled, events, NoCall, NoRelay) /\ UNCHANGED in_memory_db
           ELSE IF ~Truthy(model)
           THEN /\ ProxyEnds(HttpException(400, "no model given"), events, NoCall, NoRelay)
                /\ UNCHANGED in_memory_db
           ELSE IF cands = {}
           THEN /\ ProxyEnds(ErrorEnvelope(500, "request failed",
                                           StrOfHttpException(404, "no config for model")),
                             Append(events, "resolve"), NoCall, NoRelay)
                /\ UNCHANGED in_memory_db
           ELSE \E sel \in cands :
                  LET c == PrepareCall(request, body_dict, model[2], sel[1], sel[2])
                      noted == [sel[1] EXCEPT !.model_mappings = DictSet(@, model[2], sel[2])]
                  IN  /\ call' = c
                      /\ relay' = NoRelay
                      /\ in_memory_db' =
                           [in_memory_db EXCEPT !.api_configs =
                              [i \in DOMAIN @ |-> IF @[i] = sel[1] /\ sel[2] # model[2]
                                                  THEN noted ELSE @[i]]]
                      /\ UNCHANGED <<request, resp>>
                      /\ IF c.is_stream
                         THEN /\ pc' = "stream"
                              /\ events' = Append(events, "resolve")
                         ELSE /\ pc' = "upstream"
                              /\ events' = events \o <<"resolve", "upstream_call">>
    /\ UNCHANGED <<keyVars, now, res>>

\* Mutant: the dispatch without the model test of lines 436-437.
ProxyDispatchNoModelTest ==
    /\ pc = "body"
    /\ LET body == request.body
           body_dict == IF BodyNonEmpty(body) THEN JsonLoads(body) ELSE <<>>
           model == DictGet(body_dict, "model", StrVal(""))
           cands == GetRandomConfigForModel(model[2])
       IN  IF body.kind = "garbage"
           THEN ProxyEnds(Unhandled, events, NoCall, NoRelay)
           ELSE IF cands = {}
           THEN ProxyEnds(ErrorEnvelope(500, "request failed",
                                        StrOfHttpException(404, "no config for model")),
                          Append(events, "resolve"), NoCall, NoRelay)
           ELSE \E sel \in cands :
                  LET c == PrepareCall(request, body_dict, model[2], sel[1], sel[2])
                  IN  /\ call' = c
                      /\ relay' = NoRelay
                      /\ UNCHANGED <<request, resp>>
                      /\ IF c.is_stream
                         THEN /\ pc' = "stream"
                              /\ events' = Append(events, "resolve")
                         ELSE /\ pc' = "upstream"
                              /\ events' = events \o <<"resolve", "upstream_call">>
    /\ UNCHANGED <<keyVars, in_memory_db, now, res>>

\* Lines 431-490 and 541-548: the body is parsed, the model resolved, the
\* call prepared; a buffered call is issued, a streamed one is handed to the
\* StreamingResponse.
ProxyDispatch ==
    /\ pc = "body"
    /\ LET body == request.body
           body_dict == IF BodyNonEmpty(body) THEN JsonLoads(body) ELSE <<>>
           model == DictGet(body_dict, "model", StrVal(""))
           cands == GetRandomConfigForModel(model[2])
       IN  IF body.kind = "garbage"
           THEN ProxyEnds(Unhandled, events, NoCall, NoRelay)        \* line 432 raises
           ELSE IF ~Truthy(model)
           THEN ProxyEnds(HttpException(400, "no model given"), events, NoCall, NoRelay)
           ELSE IF cands = {}
           THEN \* the HTTPException(404) of line 379 is caught at line 541
                ProxyEnds(ErrorEnvelope(500, "request failed",
                                        StrOfHttpException(404, "no config for model")),
                          Append(events, "resolve"), NoCall, NoRelay)
           ELSE \E sel \in cands :
                  LET c == PrepareCall(request, body_dict, model[2], sel[1], sel[2])
                  IN  /\ call' = c
                      /\ relay' = NoRelay
                      /\ UNCHANGED <<request, resp>>
                      /\ IF c.is_stream
                         THEN /\ pc' = "stream"
                              /\ events' = Append(events, "resolve")
                         ELSE /\ pc' = "upstream"
                              /\ events' = events \o <<"resolve", "upstream_call">>
    /\ UNCHANGED <<keyVars, in_memory_db, now, res>>

\* What the upstream does with a call: it replies, with a JSON body or not,
\* or the transport fails.
\* The upstream's reply: its status, the bytes of its body and its headers,
\* which tell the length of that body.
UpstreamReplyOf(status, body) ==
    [kind |-> "reply", status |-> status, json |-> body.kind = "json", body |-> body,
     headers |-> [k \in {"content-type", "content-length"} |->
                    IF k = "content-type" THEN <<"application/json">>
                    ELSE <<ToString(BodyLen(body))>>]]

UpstreamJson == JsonBody("spaced", <<<<"id", StrVal("cmpl-1")>>>>)

UpstreamReply(status, json) ==
    UpstreamReplyOf(status, IF json THEN UpstreamJson ELSE GarbageBody)

\* The call fails before a reply is complete: no connection, or a timeout.
TransportError ==
    [kind |-> "error", status |-> 0, json |-> FALSE, body |-> EmptyBody, headers |-> <<>>]
UpstreamTimeout ==
    [kind |-> "timeout", status |-> 0, json |-> FALSE, body |-> EmptyBody, headers |-> <<>>]
IsSuccess(status) == status >= 200 /\ status < 300

\* JSONResponse(content, status_code, headers): the content rendered by
\* json.dumps with separators (",", ":"); the headers given are kept, and a
\* Content-Length is computed only when none is given.
JsonResponse(content, status, headers) ==
    [status |-> status, kind |-> "relay", body |-> content,
     wire |-> [headers |-> IF "content-length" \in DOMAIN headers THEN headers
                           ELSE DictSet(headers, "content-length",
                                        <<ToString(BodyLen(JsonBody("compact", content)))>>),
               text |-> JsonBody("compact", content)]]

\* Mutant: a call that failed, or that a non-success status answered, is
\* issued once more to another candidate of the model.
ProxyUpstreamRetry(up) ==
    /\ pc = "upstream"
    /\ LET body_dict == JsonLoads(request.body)
           model == DictGet(body_dict, "model", StrVal(""))[2]
           others == {sel \in GetRandomConfigForModel(model) : sel[1] # call.config}
           failed == up.kind # "reply" \/ ~IsSuccess(up.status)
       IN  IF failed /\ others # {} /\ Len(events) < 4
           THEN /\ \E sel \in others :
                     call' = PrepareCall(request, body_dict, model, sel[1], sel[2])
                /\ events' = Append(events, "upstream_call")
                /\ UNCHANGED <<pc, request, relay, resp>>
           ELSE IF up.kind = "reply" /\ up.json
           THEN ProxyEnds(JsonResponse(JsonLoads(up.body), up.status, up.headers),
                          events, call, NoRelay)
           ELSE ProxyEnds(ErrorEnvelope(500, "request failed", <<up.kind>>),
                          Append(events, IF up.kind = "reply" THEN "decode_error"
                                         ELSE "transport_error"),
                          call, NoRelay)
    /\ UNCHANGED <<keyVars, in_memory_db, now, res>>

\* Mutant: the failure of the call is not caught.
ProxyUpstreamUncaught(up) ==
    /\ pc = "upstream"
    /\ IF up.kind = "reply" /\ up.json
       THEN ProxyEnds(JsonResponse(JsonLoads(up.body), up.status, up.headers),
                      events, call, NoRelay)
       ELSE ProxyEnds(Unhandled,
                      Append(events, IF up.kind = "reply" THEN "decode_error"
                                     ELSE "transport_error"),
                      call, NoRelay)
    /\ UNCHANGED <<keyVars, in_memory_db, now, res>>

\* Lines 527-548: the buffered call completes: the upstream replied with a
\* JSON body, or response.json() failed on its body, or the transport failed.
ProxyUpstream(up) ==
    /\ pc = "upstream"
    /\ IF up.kind = "reply" /\ up.json
       THEN ProxyEnds(JsonResponse(JsonLoads(up.body), up.status, up.headers),
                      events, call, NoRelay)
       ELSE ProxyEnds(ErrorEnvelope(500, "request failed", <<up.kind>>),
                      Append(events, IF up.kind = "reply" THEN "decode_error"
                                     ELSE "transport_error"),
                      call, NoRelay)
    /\ UNCHANGED <<keyVars, in_memory_db, now, res>>

\* The synthetic event of line 512.
SseError == "data: {\"error\": ...}\n\n"

StreamResp == [status |-> 200, kind |-> "stream", body |-> <<>>]

\* Mutant: the generator resolves the model again when it starts, on the
\* store as it is then.
StreamOpenResolvesAgain ==
    /\ pc = "stream"
    /\ pc' = "connecting"
    /\ events' = Append(events, "upstream_call")
    /\ relay' = [client |-> "open", got |-> <<>>, sent |-> <<>>]
    /\ LET body_dict == JsonLoads(request.body)
           model == DictGet(body_dict, "model", StrVal(""))[2]
           cands == GetRandomConfigForModel(model)
       IN  IF cands = {} THEN call' = call
           ELSE \E sel \in cands :
                  call' = PrepareCall(request, body_dict, model, sel[1], sel[2])
    /\ UNCHANGED <<request, resp>>
    /\ UNCHANGED <<keyVars, in_memory_db, now, res>>

\* Line 492 and the call of lines 494-499: the StreamingResponse starts to
\* iterate the generator, which opens the client and issues the call.
StreamOpen ==
    /\ pc = "stream"
    /\ pc' = "connecting"
    /\ events' = Append(events, "upstream_call")
    /\ relay' = [client |-> "open", got |-> <<>>, sent |-> <<>>]
    /\ UNCHANGED <<request, call, resp>>
    /\ UNCHANGED <<keyVars, in_memory_db, now, res>>

\* Lines 494-501 and 510-514: the upstream's status line arrives, or the
\* transport fails before it does.
StreamStart(up) ==
    /\ pc = "connecting"
    /\ IF up.kind # "reply"
       THEN ProxyEnds(StreamResp, Append(events, "transport_error"), call,
                      [relay EXCEPT !.client = "closed", !.sent = Append(@, SseError)])
       ELSE /\ pc' = IF IsSuccess(up.status) THEN "relaying" ELSE "reading_error"
            /\ events' = Append(events, IF IsSuccess(up.status) THEN "status_ok"
                                        ELSE "status_error")
            /\ UNCHANGED <<request, call, relay, resp>>
    /\ UNCHANGED <<keyVars, in_memory_db, now, res>>

\* The bytes of the upstream's error body.
ErrorBody == "{\"error\": \"upstream\"}"

\* Mutant: the error body is framed as an SSE event.
StreamErrorBodyFramed ==
    /\ pc = "reading_error"
    /\ ProxyEnds(StreamResp, events, call,
                 [relay EXCEPT !.client = "closed", !.got = Append(@, ErrorBody),
                               !.sent = Append(@, "data: " \o ErrorBody \o "\n\n")])
    /\ UNCHANGED <<keyVars, in_memory_db, now, res>>

\* Lines 502-504 and 514: response.read() returns the whole error body, which
\* is yielded; the generator returns.
StreamErrorBody ==
    /\ pc = "reading_error"
    /\ ProxyEnds(StreamResp, events, call,
                 [relay EXCEPT !.client = "closed", !.got = Append(@, ErrorBody),
                               !.sent = Append(@, ErrorBody)])
    /\ UNCHANGED <<keyVars, in_memory_db, now, res>>

\* Mutant: the chunk is put before those already yielded.
StreamChunkPrepended(chunk) ==
    /\ pc = "relaying"
    /\ Len(relay.got) < MaxChunks
    /\ relay' = [relay EXCEPT !.got = Append(@, chunk),
                              !.sent = IF chunk # "" THEN <<chunk>> \o @ ELSE @]
    /\ UNCHANGED <<pc, request, call, events, resp>>
    /\ UNCHANGED <<keyVars, in_memory_db, now, res>>

\* Lines 507-509: one chunk arrives and is yielded unless it is empty.
StreamChunk(chunk) ==
    /\ pc = "relaying"
    /\ Len(relay.got) < MaxChunks
    /\ relay' = [relay EXCEPT !.got = Append(@, chunk),
                              !.sent = IF chunk # "" THEN Append(@, chunk) ELSE @]
    /\ UNCHANGED <<pc, request, call, events, resp>>
    /\ UNCHANGED <<keyVars, in_memory_db, now, res>>

\* The upstream stream ends; line 514 closes the client.
StreamEnd ==
    /\ pc = "relaying"
    /\ ProxyEnds(StreamResp, Append(events, "upstream_end"), call,
                 [relay EXCEPT !.client = "closed"])
    /\ UNCHANGED <<keyVars, in_memory_db, now, res>>

\* Mutant: the failure is swallowed, no event is emitted for it.
StreamFailSilent ==
    /\ pc \in {"relaying", "reading_error"}
    /\ ProxyEnds(StreamResp, Append(events, "transport_error"), call,
                 [relay EXCEPT !.client = "closed"])
    /\ UNCHANGED <<keyVars, in_memory_db, now, res>>

\* Lines 510-514: the transport fails between chunks, or while the error body
\* is read.
StreamFail ==
    /\ pc \in {"relaying", "reading_error"}
    /\ ProxyEnds(StreamResp, Append(events, "transport_error"), call,
                 [relay EXCEPT !.client = "closed", !.sent = Append(@, SseError)])
    /\ UNCHANGED <<keyVars, in_memory_db, now, res>>

\* The caller disconnects: the StreamingResponse stops iterating the
\* generator, which stays suspended where it is.
StreamDisconnect ==
    /\ pc \in {"stream", "connecting", "reading_error", "relaying"}
    /\ pc' = "disconnected"
    /\ events' = Append(events, "disconnect")
    /\ UNCHANGED <<request, call, relay, resp>>
    /\ UNCHANGED <<keyVars, in_memory_db, now, res>>

\* Mutant: the abandoned generator is dropped without its finally clause.
StreamCloseNoFinally ==
    /\ pc = "disconnected"
    /\ ProxyEnds([status |-> 200, kind |-> "stream_aborted", body |-> <<>>],
                 events, call, relay)
    /\ UNCHANGED <<keyVars, in_memory_db, now, res>>

\* The abandoned generator is closed: the exception raised where it is
\* suspended is no Exception, so line 510 lets it pass and line 514 closes
\* the client; a generator that never started has opened no client.
StreamClose ==
    /\ pc = "disconnected"
    /\ ProxyEnds([status |-> 200, kind |-> "stream_aborted", body |-> <<>>],
                 events, call,
                 IF relay.client = "open" THEN [relay EXCEPT !.client = "closed"]
                 ELSE relay)
    /\ UNCHANGED <<keyVars, in_memory_db, now, res>>

(***************************************************************************)
(* The admin endpoints, index.py:165-321.  Each depends on                 *)
(* get_admin_api_key_from_cookie; none reads the Authorization header.     *)
(***************************************************************************)
\* Mutant: the cookie gate without the "not auth_key" test of line 167.
GetAdminApiKeyFromCookieNoEmptyTest(cookie) ==
    IF cookie # ADMIN_API_KEY THEN Deny(401, "admin cookie required") ELSE Allow(cookie)

\* Lines 165-172.  The cookie is "" when the request carries none.
GetAdminApiKeyFromCookie(cookie) ==
    IF cookie = "" \/ cookie # ADMIN_API_KEY
    THEN Deny(401, "admin cookie required")
    ELSE Allow(cookie)

\* The response of an endpoint other than /v1 to request req.
EndpointResp(endpoint, req, r, c) ==
    [endpoint |-> endpoint, req |-> req, status |-> r.status, kind |-> r.kind,
     body |-> r.body, wire |-> WireOf(r), events |-> <<>>, call |-> c, relay |-> NoRelay]

Ok200(body) == [status |-> 200, kind |-> "json", body |-> body]

\* urlparse(base_url).netloc
NetLoc(base_url) ==
    IF base_url = <<>> THEN ""
    ELSE CASE base_url[1] = "https://a.example" -> "a.example"
           [] base_url[1] = "https://b.example" -> "b.example"
           [] OTHER -> ""

\* "**" + api_key[-4:] if len(api_key) > 4 else "****", lines 249 and 267.
LastFour(api_key) == CASE api_key = "sk-live-3" -> "ve-3" [] OTHER -> api_key
MaskKey(api_key) == IF Len(api_key) > 4 THEN "**" \o LastFour(api_key) ELSE "****"
Masked(config) == [config EXCEPT !.api_key = MaskKey(@)]

\* The index of the first config of that id, 0 when there is none.
IndexOfId(configs, config_id) ==
    LET hits == {i \in DOMAIN configs : configs[i].id = config_id}
    IN  IF hits = {} THEN 0 ELSE CHOOSE i \in hits : \A j \in hits : i <= j

StoreUnchanged == UNCHANGED <<in_memory_db>>
AdminFrame == UNCHANGED <<keyVars, now, proxyVars, res>>

\* Lines 174-194.  The id is the clock's second, created_at its reading.
CreateConfig(req) ==
    /\ Len(in_memory_db.api_configs) < MaxConfigs
    /\ LET gate == GetAdminApiKeyFromCookie(req.cookie)
           config_dict ==
               [id |-> now, api_key |-> req.config.api_key,
                base_url |-> req.config.base_url, models |-> req.config.models,
                vendor |-> IF req.config.vendor = "" THEN NetLoc(req.config.base_url)
                           ELSE req.config.vendor,
                model_mappings |-> req.config.model_mappings, created_at |-> now]
       IN  IF ~gate.ok
           THEN /\ resp' = EndpointResp("create_config", req,
                                        HttpException(gate.status, gate.detail), NoCall)
                /\ StoreUnchanged
           ELSE /\ in_memory_db' = [in_memory_db EXCEPT !.api_configs = Append(@, config_dict)]
                /\ resp' = EndpointResp("create_config", req,
                               Ok200(<<<<"message", "created">>, <<"config_id", now>>>>), NoCall)
    /\ AdminFrame

\* Lines 196-234.
UpdateConfig(req) ==
    /\ LET gate == GetAdminApiKeyFromCookie(req.cookie)
           configs == in_memory_db.api_configs
           i == IndexOfId(configs, req.config_id)
           existing == configs[i]
           config_dict ==
               [id |-> req.config_id, api_key |-> req.config.api_key,
                base_url |-> req.config.base_url, models |-> req.config.models,
                vendor |-> IF req.config.vendor # "" THEN req.config.vendor
                           ELSE IF existing.vendor # "" THEN existing.vendor
                           ELSE NetLoc(req.config.base_url),
                model_mappings |-> req.config.model_mappings,
                created_at |-> existing.created_at]
       IN  IF ~gate.ok
           THEN /\ resp' = EndpointResp("update_config", req,
                                        HttpException(gate.status, gate.detail), NoCall)
                /\ StoreUnchanged
           ELSE IF i = 0
           THEN /\ resp' = EndpointResp("update_config", req,
                                        HttpException(404, "no such config"), NoCall)
                /\ StoreUnchanged
           ELSE /\ in_memory_db' = [in_memory_db EXCEPT !.api_configs[i] = config_dict]
                /\ resp' = EndpointResp("update_config", req,
                               Ok200(<<<<"message", "updated">>,
                                       <<"config_id", req.config_id>>>>), NoCall)
    /\ AdminFrame

\* Lines 236-251.
ListConfigs(req) ==
    /\ LET gate == GetAdminApiKeyFromCookie(req.cookie)
           configs == in_memory_db.api_configs
       IN  IF ~gate.ok
           THEN resp' = EndpointResp("list_configs", req,
                                     HttpException(gate.status, gate.detail), NoCall)
           ELSE resp' = EndpointResp("list_configs", req,
                            Ok200(<<<<"configs",
                                     [k \in DOMAIN configs |-> Masked(configs[k])]>>>>), NoCall)
    /\ StoreUnchanged
    /\ AdminFrame

\* Lines 253-270.
GetConfig(req) ==
    /\ LET gate == GetAdminApiKeyFromCookie(req.cookie)
           configs == in_memory_db.api_configs
           i == IndexOfId(configs, req.config_id)
       IN  IF ~gate.ok
           THEN resp' = EndpointResp("get_config", req,
                                     HttpException(gate.status, gate.detail), NoCall)
           ELSE IF i = 0
           THEN resp' = EndpointResp("get_config", req,
                                     HttpException(404, "no such config"), NoCall)
           ELSE resp' = EndpointResp("get_config", req,
                            Ok200(<<<<"config", Masked(configs[i])>>>>), NoCall)
    /\ StoreUnchanged
    /\ AdminFrame

\* Lines 272-282.
DeleteConfig(req) ==
    /\ LET gate == GetAdminApiKeyFromCookie(req.cookie)
       IN  IF ~gate.ok
           THEN /\ resp' = EndpointResp("delete_config", req,
                                        HttpException(gate.status, gate.detail), NoCall)
                /\ StoreUnchanged
           ELSE /\ in_memory_db' =
                      [in_memory_db EXCEPT !.api_configs =
                           SelectSeq(@, LAMBDA c : c.id # req.config_id)]
                /\ resp' = EndpointResp("delete_config", req,
                               Ok200(<<<<"message", "deleted">>>>), NoCall)
    /\ AdminFrame

\* Lines 285-297.
CreateModelMapping(req) ==
    /\ LET gate == GetAdminApiKeyFromCookie(req.cookie)
           mappings == in_memory_db.model_mappings
           name == req.mapping.unified_name
       IN  IF ~gate.ok
           THEN /\ resp' = EndpointResp("create_model_mapping", req,
                                        HttpException(gate.status, gate.detail), NoCall)
                /\ StoreUnchanged
           ELSE /\ in_memory_db' =
                      [in_memory_db EXCEPT !.model_mappings =
                           [u \in DOMAIN mappings \cup {name} |->
                               IF u = name THEN req.mapping.vendor_models ELSE mappings[u]]]
                /\ resp' = EndpointResp("create_model_mapping", req,
                               Ok200(<<<<"message", "mapping created">>>>), NoCall)
    /\ AdminFrame

\* Lines 299-307.
ListModelMappings(req) ==
    /\ LET gate == GetAdminApiKeyFromCookie(req.cookie)
       IN  IF ~gate.ok
           THEN resp' = EndpointResp("list_model_mappings", req,
                                     HttpException(gate.status, gate.detail), NoCall)
           ELSE resp' = EndpointResp("list_model_mappings", req,
                            Ok200(<<<<"mappings", in_memory_db.model_mappings>>>>), NoCall)
    /\ StoreUnchanged
    /\ AdminFrame

\* Lines 309-321.
DeleteModelMapping(req) ==
    /\ LET gate == GetAdminApiKeyFromCookie(req.cookie)
           mappings == in_memory_db.model_mappings
       IN  IF ~gate.ok
           THEN /\ resp' = EndpointResp("delete_model_mapping", req,
                                        HttpException(gate.status, gate.detail), NoCall)
                /\ StoreUnchanged
           ELSE /\ in_memory_db' =
                      [in_memory_db EXCEPT !.model_mappings =
                           [u \in DOMAIN mappings \ {req.unified_name} |-> mappings[u]]]
                /\ resp' = EndpointResp("delete_model_mapping", req,
                               Ok200(<<<<"message", "mapping deleted">>>>), NoCall)
    /\ AdminFrame

\* datetime.now() moves on by a second.
Tick ==
    /\ now < MaxClock
    /\ now' = now + 1
    /\ UNCHANGED <<keyVars, in_memory_db, proxyVars, resp, res>>

(***************************************************************************)
(* The debug endpoints, index.py:594-828.                                  *)
(***************************************************************************)
\* Lines 594-632: the same gate as openai_proxy's, on the bearer token.
GetApiKeyFromRequest(headers) ==
    LET auth_header == HeadersGet(headers, "Authorization")
        parts == Split(auth_header.value)
    IN  IF ~auth_header.present \/ auth_header.value = <<>>
        THEN Deny(401, "missing credentials")
        ELSE IF Len(parts) # 2 THEN Deny(401, "bad format")
        ELSE IF Lower(parts[1]) # "bearer" THEN Deny(401, "bad format")
        ELSE IF ALLOWED_API_KEYS = {} /\ ADMIN_API_KEY = ""
        THEN Deny(401, "no keys configured")
        ELSE IF parts[2] # ADMIN_API_KEY /\ parts[2] \notin ALLOWED_API_KEYS
        THEN Deny(401, "invalid key")
        ELSE Allow(parts[2])

\* Lines 634-649.
DebugModelMapping(req) ==
    /\ LET gate == GetApiKeyFromRequest(RequestHeaders(req.headers))
           cands == GetRandomConfigForModel(req.model)
       IN  IF ~gate.ok
           THEN resp' = EndpointResp("debug_model_mapping", req,
                                     HttpException(gate.status, gate.detail), NoCall)
           ELSE IF cands = {}
           THEN resp' = EndpointResp("debug_model_mapping", req,
                            HttpException(500, StrOfHttpException(404, "no config for model")),
                            NoCall)
           ELSE \E sel \in cands :
                  resp' = EndpointResp("debug_model_mapping", req,
                              Ok200(<<<<"model", req.model>>, <<"mapped_model", sel[2]>>,
                                      <<"config", [id |-> sel[1].id,
                                                   base_url |-> sel[1].base_url]>>>>),
                              NoCall)
    /\ StoreUnchanged
    /\ AdminFrame

\* Lines 678-697 (and 766-784): the headers of the debug call.
DebugHeaders(headers, body, config) ==
    LET h1 == DictPop(HeadersDict(headers), "host")
        h2 == DictPopVariants(h1, "authorization")
        h3 == DictPopVariants(h2, "content-length")
        h4 == IF BodyNonEmpty(body)
              THEN DictSet(h3, "Content-Length", <<ToString(BodyLen(body))>>)
              ELSE h3
    IN  DictSet(h4, "Authorization", BearerText(config.api_key))

\* Lines 651-732 (stream = FALSE) and 734-828 (stream = TRUE): the call goes
\* to the target_url of the request body, with the selected config's key.
DebugForwardTo(endpoint, req, up, stream) ==
    /\ LET gate == GetApiKeyFromRequest(RequestHeaders(req.headers))
           body == req.body
           dict0 == IF BodyNonEmpty(body) THEN JsonLoads(body) ELSE <<>>
           body_dict == IF stream THEN DictPut(dict0, "stream", BoolVal(TRUE)) ELSE dict0
           model == DictGet(body_dict, "model", StrVal(""))
           target_url == DictGet(body_dict, "target_url", StrVal(""))
           cands == GetRandomConfigForModel(model[2])
           failed(message) ==
               IF stream THEN ErrorEnvelope(500, "stream test failed", message)
               ELSE Ok200(<<<<"error", "debug forward failed">>, <<"message", message>>>>)
       IN  IF ~gate.ok
           THEN resp' = EndpointResp(endpoint, req,
                                     HttpException(gate.status, gate.detail), NoCall)
           ELSE IF body.kind = "garbage"
           THEN resp' = EndpointResp(endpoint, req, failed("JSONDecodeError"), NoCall)
           ELSE IF ~Truthy(model) \/ ~Truthy(target_url)
           THEN resp' = EndpointResp(endpoint, req,
                            Ok200(<<<<"error", "missing parameters">>,
                                    <<"message", "give model and target_url">>>>), NoCall)
           ELSE IF cands = {}
           THEN resp' = EndpointResp(endpoint, req,
                            failed(StrOfHttpException(404, "no config for model")), NoCall)
           ELSE \E sel \in cands :
                  LET new_dict == IF sel[2] # model[2]
                                  THEN DictPut(body_dict, "model", StrVal(sel[2]))
                                  ELSE body_dict
                      out_body == IF stream \/ sel[2] # model[2]
                                  THEN JsonDumps(new_dict) ELSE body
                      c == [config |-> sel[1], actual_model |-> sel[2], method |-> "POST",
                            url |-> <<target_url[2]>>,
                            headers |->
                                LET h == DebugHeaders(RequestHeaders(req.headers),
                                                      out_body, sel[1])
                                IN  IF stream       \* line 787
                                    THEN DictSet(h, "Content-Type", <<"application/json">>)
                                    ELSE h,
                            body |-> out_body, is_stream |-> stream]
                  IN  IF stream
                      THEN resp' = EndpointResp(endpoint, req,
                                       [status |-> 200, kind |-> "stream",
                                        body |-> IF up.kind # "reply" THEN <<SseError>>
                                                 ELSE <<"upstream-bytes">>], c)
                      ELSE IF up.kind # "reply"
                      THEN resp' = EndpointResp(endpoint, req, failed(<<up.kind>>), c)
                      ELSE resp' = EndpointResp(endpoint, req,
                                       Ok200(<<<<"request", [url |-> <<target_url[2]>>,
                                                  headers |-> DictPopVariants(c.headers,
                                                                  "authorization")]>>,
                                               <<"response", [status_code |-> up.status]>>,
                                               <<"mapping", [original_model |-> model[2],
                                                             actual_model |-> sel[2],
                                                             config_id |-> sel[1].id]>>>>), c)
    /\ StoreUnchanged
    /\ AdminFrame

DebugForward(req, up) == DebugForwardTo("debug_forward", req, up, FALSE)
DebugStream(req, up) == DebugForwardTo("debug_stream", req, up, TRUE)

(***************************************************************************)
(* Inputs.                                                                 *)
(***************************************************************************)
\* The environment at start-up: the admin key set or empty, the allow-list
\* holding a key or empty (ENVIRONMENT=production with no API_KEY_n).
AdminKeySettings == {"", "adm"}
AllowListSettings == {{}, {"k1"}}

AuthLine(value) == HeaderLine("Authorization", value)

\* Bodies of /v1 requests.
BodyFast == JsonBody("compact", <<<<"model", StrVal("chat-fast")>>>>)
BodyStream ==
    JsonBody("compact", <<<<"model", StrVal("gpt-x")>>, <<"stream", BoolVal(TRUE)>>>>)
BodyUnknown == JsonBody("spaced", <<<<"model", StrVal("nope")>>>>)

\* What the admin page posts to /api/configs and /api/model-mappings.
ConfigA ==
    [api_key |-> "sk-1", base_url |-> <<"https://a.example", "/">>, models |-> {"gpt-x"},
     vendor |-> "a", model_mappings |-> [m \in {"chat-fast"} |-> "gpt-x"]]
ConfigB ==
    [api_key |-> "sk-live-3", base_url |-> <<"https://b.example">>,
     models |-> {"chat-fast", "gpt-x"}, vendor |-> "", model_mappings |-> EmptyDict]
ConfigInputs == {ConfigA, ConfigB}
MappingInputs ==
    {[unified_name |-> "chat-fast", vendor_models |-> [v \in {"b.example"} |-> "gpt-x"]]}

UpstreamResults ==
    {UpstreamReply(200, TRUE), UpstreamReply(429, TRUE), UpstreamReply(200, FALSE),
     TransportError}
Chunks == {"", "data: 1\n\n"}

(***************************************************************************)
(* Spec: /v1 requests, streamed and buffered, while the admin page edits   *)
(* the store.                                                              *)
(***************************************************************************)
ProxyRequests ==
    [method : {"POST"}, path : {"chat/completions", "models"},
     headers : {<<>>, <<AuthLine(BearerText("k1"))>>, <<AuthLine(BearerText("bad"))>>},
     body : {EmptyBody, BodyFast, BodyStream, BodyUnknown}]

StoreIds == 0..MaxClock

Init ==
    /\ ADMIN_API_KEY \in AdminKeySettings
    /\ ALLOWED_API_KEYS \in AllowListSettings
    /\ in_memory_db = [api_configs |-> <<>>, model_mappings |-> EmptyDict]
    /\ now = 0
    /\ pc = "idle"
    /\ request = NoRequest
    /\ call = NoCall
    /\ events = <<>>
    /\ relay = NoRelay
    /\ resp = NoResp
    /\ res = NoRes

AdminEdits ==
    \/ \E config \in ConfigInputs :
         CreateConfig([cookie |-> "adm", headers |-> <<>>, config |-> config])
    \/ \E id \in StoreIds :
         DeleteConfig([cookie |-> "adm", headers |-> <<>>, config_id |-> id])
    \/ \E mapping \in MappingInputs :
         CreateModelMapping([cookie |-> "adm", headers |-> <<>>, mapping |-> mapping])
    \/ DeleteModelMapping([cookie |-> "adm", headers |-> <<>>, unified_name |-> "chat-fast"])

ProxySteps ==
    \/ \E req \in ProxyRequests : ProxyBegin(req)
    \/ ProxyDispatch
    \/ \E up \in UpstreamResults : ProxyUpstream(up)
    \/ StreamOpen
    \/ \E up \in UpstreamResults : StreamStart(up)
    \/ StreamErrorBody
    \/ \E chunk \in Chunks : StreamChunk(chunk)
    \/ StreamEnd
    \/ StreamFail
    \/ StreamDisconnect
    \/ StreamClose

Next == Tick \/ AdminEdits \/ ProxySteps

Spec == Init /\ [][Next]_vars

(***************************************************************************)
(* SpecGate: every authenticated endpoint, called with each combination of *)
(* bearer token and auth_key cookie.                                       *)
(***************************************************************************)
GateCookies == {"", "adm", "k1"}
GateHeaders == {<<>>, <<AuthLine(BearerText("adm"))>>, <<AuthLine(BearerText("k1"))>>}

BodyDebug ==
    JsonBody("compact", <<<<"model", StrVal("chat-fast")>>,
                          <<"target_url", StrVal("https://caller.example/hook")>>>>)

GateProxyRequests ==
    [method : {"POST"}, path : {"chat/completions", "models"},
     headers : GateHeaders \cup {<<AuthLine(BearerText("bad"))>>},
     body : {BodyFast}]

Credentials == [cookie : GateCookies, headers : GateHeaders]

\* r extended with the other fields of a request.
With(r, field, value) ==
    [k \in DOMAIN r \cup {field} |-> IF k = field THEN value ELSE r[k]]

AdminCalls ==
    \/ \E cred \in Credentials, config \in ConfigInputs :
         pc = "idle" /\ CreateConfig(With(cred, "config", config))
    \/ \E cred \in Credentials :
         pc = "idle" /\ UpdateConfig(With(With(cred, "config_id", 0), "config", ConfigB))
    \/ \E cred \in Credentials : pc = "idle" /\ ListConfigs(cred)
    \/ \E cred \in Credentials : pc = "idle" /\ GetConfig(With(cred, "config_id", 0))
    \/ \E cred \in Credentials : pc = "idle" /\ DeleteConfig(With(cred, "config_id", 0))
    \/ \E cred \in Credentials, mapping \in MappingInputs :
         pc = "idle" /\ CreateModelMapping(With(cred, "mapping", mapping))
    \/ \E cred \in Credentials : pc = "idle" /\ ListModelMappings(cred)
    \/ \E cred \in Credentials :
         pc = "idle" /\ DeleteModelMapping(With(cred, "unified_name", "chat-fast"))

BearerOnly == [cookie : {""}, headers : GateHeaders \cup {<<AuthLine(BearerText("bad"))>>}]

DebugCalls ==
    \/ \E cred \in BearerOnly : pc = "idle" /\ DebugModelMapping(With(cred, "model", "chat-fast"))
    \/ \E cred \in BearerOnly, body \in {BodyDebug, EmptyBody},
          up \in {UpstreamReply(200, TRUE), TransportError} :
         pc = "idle" /\ DebugForward(With(cred, "body", body), up)
    \/ \E cred \in BearerOnly : pc = "idle" /\ DebugStream(With(cred, "body", BodyDebug), UpstreamReply(200, TRUE))

GateProxySteps ==
    \/ \E req \in GateProxyRequests : ProxyBegin(req)
    \/ ProxyDispatch
    \/ \E up \in UpstreamResults : ProxyUpstream(up)

\* The requests are served one after the other here; Spec interleaves them.
NextGate == AdminCalls \/ DebugCalls \/ GateProxySteps

SpecGate == Init /\ [][NextGate]_vars

(***************************************************************************)
(* SpecResolve: resolution over every store snapshot within the bounds.    *)
(***************************************************************************)
\* What create_config accepts for the fields resolution reads.
ConfigShapes ==
    [models : SUBSET ModelNames, vendor : VendorIds,
     model_mappings : {EmptyDict, [m \in {"chat-fast"} |-> "gpt-x"]}]

MkConfig(i, shape) ==
    [id |-> i, api_key |-> KeyOfIndex(i), base_url |-> UrlOfVendor(shape.vendor),
     models |-> shape.models, vendor |-> shape.vendor,
     model_mappings |-> shape.model_mappings, created_at |-> i]

ConfigLists ==
    UNION {{[i \in 1..n |-> MkConfig(i, s[i])] : s \in [1..n -> ConfigShapes]} :
             n \in 0..MaxConfigs}

\* The global table: no entry, or chat-fast mapped for some vendors to gpt-x.
GlobalMappings ==
    {EmptyDict} \cup
    {[u \in {"chat-fast"} |-> [v \in vs |-> "gpt-x"]] : vs \in SUBSET VendorIds}

InitResolve ==
    /\ ADMIN_API_KEY = "adm"
    /\ ALLOWED_API_KEYS = {"k1"}
    /\ in_memory_db \in [api_configs : ConfigLists, model_mappings : GlobalMappings]
    /\ now = 0
    /\ pc = "idle"
    /\ request = NoRequest
    /\ call = NoCall
    /\ events = <<>>
    /\ relay = NoRelay
    /\ resp = NoResp
    /\ res = NoRes

NextResolve == \E model \in ModelNames : Resolve(model)

SpecResolve == InitResolve /\ [][NextResolve]_vars

(***************************************************************************)
(* SpecAuth: the gate of /v1 on every Authorization value within the       *)
(* bounds, under each key setting.                                         *)
(***************************************************************************)
MaxWords == 3

\* The schemes and keys a caller may write; "bad" is neither.
AuthWords == {"Bearer", "bearer", "k1", "adm", "bad"}

\* The text of the words, one blank between two of them.
RECURSIVE Join(_)
Join(words) ==
    IF words = <<>> THEN <<>>
    ELSE IF Len(words) = 1 THEN words
    ELSE <<Head(words), SP>> \o Join(Tail(words))

AuthValues == {Join(ws) : ws \in UNION {[1..n -> AuthWords] : n \in 0..MaxWords}}

\* No Authorization line, one, or several of which the first is read.
AuthHeaders ==
    {<<>>, <<HeaderLine("X-Trace", BearerText("k1"))>>,
     <<AuthLine(<<"Basic", SP, "k1">>)>>, <<AuthLine(<<"BEARER", SP, "adm">>)>>}
    \cup {<<AuthLine(value)>> : value \in AuthValues}
    \cup {<<HeaderLine("AUTHORIZATION", first), AuthLine(BearerText("k1"))>> :
            first \in {<<"k1">>, BearerText("bad"), BearerText("adm")}}

AuthRequests ==
    [method : {"POST"}, path : {"chat/completions"}, headers : AuthHeaders, body : {BodyFast}]
    \cup [method : {"POST"}, path : {"models"},
          headers : {<<>>, <<AuthLine(BearerText("k1"))>>}, body : {BodyFast}]

NextAuth ==
    \/ \E req \in AuthRequests : ProxyBegin(req)
    \/ ProxyDispatch

SpecAuth == Init /\ [][NextAuth]_vars

(***************************************************************************)
(* SpecTransform: the call prepared by /v1/chat/completions, for bodies    *)
(* and header sets of every shape, on each store within the bounds.        *)
(***************************************************************************)
\* A config with a local mapping, one that serves both names directly, and
\* one of vendor "a" for the global mapping.
TransformShapes ==
    {[models |-> {"gpt-x"}, vendor |-> "b", model_mappings |-> [m \in {"chat-fast"} |-> "gpt-x"]],
     [models |-> {"chat-fast", "gpt-x"}, vendor |-> "b", model_mappings |-> EmptyDict],
     [models |-> {"gpt-x"}, vendor |-> "a", model_mappings |-> EmptyDict]}

TransformConfigLists ==
    UNION {{[i \in 1..n |-> MkConfig(i, s[i])] : s \in [1..n -> TransformShapes]} :
             n \in 0..MaxConfigs}

TransformMappings == {EmptyDict, [u \in {"chat-fast"} |-> [v \in {"a"} |-> "gpt-x"]]}

\* Bodies: compact and spaced, with members before and after "model", with
\* "model" given twice.
TransformBodies ==
    {BodyFast,
     BodyStream,
     JsonBody("spaced", <<<<"model", StrVal("gpt-x")>>>>),
     JsonBody("spaced", <<<<"user", StrVal("u1")>>, <<"model", StrVal("chat-fast")>>,
                          <<"stream", BoolVal(FALSE)>>>>),
     JsonBody("compact", <<<<"user", StrVal("u1")>>, <<"model", StrVal("chat-fast")>>,
                           <<"stream", BoolVal(TRUE)>>>>),
     JsonBody("compact", <<<<"model", StrVal("nope")>>, <<"model", StrVal("gpt-x")>>>>),
     JsonBody("compact", <<<<"model", StrVal("gpt-x")>>, <<"user", StrVal("u1")>>,
                           <<"model", StrVal("chat-fast")>>>>)}

\* Header sets: the names as a client may spell them, once or several times.
TransformHeaders ==
    {<<AuthLine(BearerText("k1"))>>,
     <<HeaderLine("host", <<"gw.example">>), HeaderLine("authorization", BearerText("adm")),
       HeaderLine("content-length", <<"19">>)>>,
     <<HeaderLine("Host", <<"gw.example">>), HeaderLine("HOST", <<"other.example">>),
       HeaderLine("AUTHORIZATION", BearerText("k1")), AuthLine(BearerText("adm")),
       HeaderLine("authorization", BearerText("bad")),
       HeaderLine("Content-Length", <<"19">>), HeaderLine("CONTENT-LENGTH", <<"7">>),
       HeaderLine("content-length", <<"0">>), HeaderLine("X-Trace", <<"t1">>)>>}

TransformRequests ==
    [method : {"POST"}, path : {"chat/completions"}, headers : TransformHeaders,
     body : TransformBodies]

InitTransform ==
    /\ ADMIN_API_KEY = "adm"
    /\ ALLOWED_API_KEYS = {"k1"}
    /\ in_memory_db \in [api_configs : TransformConfigLists, model_mappings : TransformMappings]
    /\ now = 0
    /\ pc = "idle"
    /\ request = NoRequest
    /\ call = NoCall
    /\ events = <<>>
    /\ relay = NoRelay
    /\ resp = NoResp
    /\ res = NoRes

NextTransform ==
    \/ \E req \in TransformRequests : ProxyBegin(req)
    \/ ProxyDispatch
    \/ \E up \in {UpstreamReply(200, TRUE), TransportError} : ProxyUpstream(up)
    \/ StreamOpen
    \/ StreamStart(TransportError)

SpecTransform == InitTransform /\ [][NextTransform]_vars

(***************************************************************************)
(* SpecUrl: /v1/chat/completions served from one config, for every         *)
(* base_url within the bounds.                                             *)
(***************************************************************************)
MaxPieces == 3

\* The pieces of a base_url: texts ending with neither "#" nor "/", and the
\* two characters themselves.
UrlPieces == {"https://a.example", "v2", "/", "#"}

BaseUrls == UNION {[1..n -> UrlPieces] : n \in 0..MaxPieces}

UrlKeys == {"sk-1", "sk-2"}

UrlRequests ==
    [method : {"POST"}, path : {"chat/completions"},
     headers : {<<AuthLine(BearerText("k1"))>>,
                <<HeaderLine("host", <<"gw.example">>), AuthLine(BearerText("adm"))>>},
     body : {BodyFast, JsonBody("spaced", <<<<"model", StrVal("gpt-x")>>>>)}]

InitUrl ==
    /\ ADMIN_API_KEY = "adm"
    /\ ALLOWED_API_KEYS = {"k1"}
    /\ \E base_url \in BaseUrls, api_key \in UrlKeys :
         in_memory_db =
             [api_configs |-> <<[id |-> 1, api_key |-> api_key, base_url |-> base_url,
                                 models |-> {"gpt-x"}, vendor |-> "a",
                                 model_mappings |-> [m \in {"chat-fast"} |-> "gpt-x"],
                                 created_at |-> 0]>>,
              model_mappings |-> EmptyDict]
    /\ now = 0
    /\ pc = "idle"
    /\ request = NoRequest
    /\ call = NoCall
    /\ events = <<>>
    /\ relay = NoRelay
    /\ resp = NoResp
    /\ res = NoRes

NextUrl ==
    \/ \E req \in UrlRequests : ProxyBegin(req)
    \/ ProxyDispatch
    \/ ProxyUpstream(UpstreamReply(200, TRUE))

SpecUrl == InitUrl /\ [][NextUrl]_vars

(***************************************************************************)
(* SpecStream: streamed /v1/chat/completions requests served from one      *)
(* config, with every course the upstream and the caller may take.         *)
(***************************************************************************)
StreamChunks == {"", "data: 1\n\n", "data: 2\n\n"}

StreamUpstreams == {UpstreamReply(200, TRUE), UpstreamReply(429, TRUE), TransportError}

StreamRequests ==
    [method : {"POST"}, path : {"chat/completions"},
     headers : {<<AuthLine(BearerText("k1"))>>, <<AuthLine(BearerText("adm"))>>},
     body : {BodyStream}]

InitStream ==
    /\ ADMIN_API_KEY = "adm"
    /\ ALLOWED_API_KEYS = {"k1"}
    /\ in_memory_db = [api_configs |-> <<MkConfig(1, [models |-> {"gpt-x"}, vendor |-> "a",
                                                      model_mappings |-> EmptyDict])>>,
                       model_mappings |-> EmptyDict]
    /\ now = 0
    /\ pc = "idle"
    /\ request = NoRequest
    /\ call = NoCall
    /\ events = <<>>
    /\ relay = NoRelay
    /\ resp = NoResp
    /\ res = NoRes

\* The steps the event loop and the upstream take on their own.
StreamRuns ==
    \/ ProxyDispatch
    \/ StreamOpen
    \/ \E up \in StreamUpstreams : StreamStart(up)
    \/ StreamErrorBody
    \/ \E chunk \in StreamChunks : StreamChunk(chunk)
    \/ StreamEnd
    \/ StreamFail
    \/ StreamClose

NextStream ==
    \/ \E req \in StreamRequests : ProxyBegin(req)
    \/ StreamRuns
    \/ StreamDisconnect

\* The event loop runs what is ready; the upstream answers, ends or fails
\* within the timeout of line 492; an abandoned generator is closed.  The
\* caller need neither send a request nor disconnect.
SpecStream == InitStream /\ [][NextStream]_vars /\ WF_vars(StreamRuns)

(***************************************************************************)
(* SpecRelay: buffered /v1/chat/completions requests on each store within  *)
(* the bounds, with every reply and failure of the upstream.               *)
(***************************************************************************)
RelayStatuses == {200, 400, 429, 500}

\* Bodies of the upstream: JSON as json.dumps would write it, JSON written
\* compactly, bytes that are not JSON, nothing.
RelayBodies ==
    {UpstreamJson,
     JsonBody("compact", <<<<"id", StrVal("cmpl-1")>>, <<"done", BoolVal(TRUE)>>>>),
     GarbageBody,
     EmptyBody}

RelayUpstreams ==
    {UpstreamReplyOf(status, body) : status \in RelayStatuses, body \in RelayBodies}
    \cup {TransportError, UpstreamTimeout}

RelayRequests ==
    [method : {"POST"}, path : {"chat/completions"},
     headers : {<<AuthLine(BearerText("k1"))>>},
     body : {BodyFast, JsonBody("spaced", <<<<"model", StrVal("gpt-x")>>>>)}]

InitRelay ==
    /\ ADMIN_API_KEY = "adm"
    /\ ALLOWED_API_KEYS = {"k1"}
    /\ in_memory_db \in [api_configs : TransformConfigLists, model_mappings : {EmptyDict}]
    /\ now = 0
    /\ pc = "idle"
    /\ request = NoRequest
    /\ call = NoCall
    /\ events = <<>>
    /\ relay = NoRelay
    /\ resp = NoResp
    /\ res = NoRes

NextRelay ==
    \/ \E req \in RelayRequests : ProxyBegin(req)
    \/ ProxyDispatch
    \/ \E up \in RelayUpstreams : ProxyUpstream(up)

SpecRelay == InitRelay /\ [][NextRelay]_vars

(***************************************************************************)
(* SpecEntry: the entry of /v1/{path}, for each routed method, paths that  *)
(* are and are not "chat/completions", and bodies with and without a       *)
(* model.                                                                  *)
(***************************************************************************)
\* Bodies: none, not JSON, and objects whose "model" is present, absent,
\* empty, false, or given twice.
EntryBodies ==
    {EmptyBody,
     GarbageBody,
     BodyFast,
     JsonBody("compact", <<>>),
     JsonBody("spaced", <<<<"stream", BoolVal(TRUE)>>>>),
     JsonBody("compact", <<<<"model", StrVal("")>>>>),
     JsonBody("spaced", <<<<"model", BoolVal(FALSE)>>, <<"stream", BoolVal(TRUE)>>>>),
     JsonBody("compact", <<<<"model", StrVal("chat-fast")>>, <<"model", StrVal("")>>>>)}

\* Line 386: the route takes GET, POST, PUT and DELETE and any path under
\* /v1/, the empty one included.
EntryRequests ==
    [method : {"GET", "POST", "PUT", "DELETE"},
     path : {"", "models", "embeddings", "chat/completions/", "Chat/Completions"},
     headers : {<<>>, <<AuthLine(BearerText("k1"))>>, <<AuthLine(BearerText("bad"))>>},
     body : {EmptyBody, GarbageBody, BodyFast}]
    \cup [method : {"GET", "POST", "PUT", "DELETE"}, path : {"chat/completions"},
          headers : {<<>>, <<AuthLine(BearerText("adm"))>>}, body : EntryBodies]

InitEntry ==
    /\ ADMIN_API_KEY = "adm"
    /\ ALLOWED_API_KEYS = {"k1"}
    /\ in_memory_db \in [api_configs : {cl \in TransformConfigLists : Len(cl) <= 1},
                         model_mappings : {EmptyDict}]
    /\ now = 0
    /\ pc = "idle"
    /\ request = NoRequest
    /\ call = NoCall
    /\ events = <<>>
    /\ relay = NoRelay
    /\ resp = NoResp
    /\ res = NoRes

NextEntry ==
    \/ \E req \in EntryRequests : ProxyBegin(req)
    \/ ProxyDispatch
    \/ \E up \in {UpstreamReply(200, TRUE), TransportError} : ProxyUpstream(up)

SpecEntry == InitEntry /\ [][NextEntry]_vars

(***************************************************************************)
(* SpecProxy: /v1 requests alone, streamed and buffered, on each store     *)
(* within the bounds; nothing but the handler runs.                        *)
(***************************************************************************)
SpecProxy == InitTransform /\ [][ProxySteps]_vars

(***************************************************************************)
(* SpecStore: the admin page creates, updates and deletes configs while    *)
(* the clock runs.                                                         *)
(***************************************************************************)
NextStore ==
    \/ Tick
    \/ \E config \in ConfigInputs :
         CreateConfig([cookie |-> "adm", headers |-> <<>>, config |-> config])
    \/ \E id \in StoreIds, config \in ConfigInputs :
         UpdateConfig([cookie |-> "adm", headers |-> <<>>, config_id |-> id,
                       config |-> config])
    \/ \E id \in StoreIds :
         DeleteConfig([cookie |-> "adm", headers |-> <<>>, config_id |-> id])

SpecStore == Init /\ [][NextStore]_vars

(***************************************************************************)
(* Claims about resolution.  The tiers below are stated from the claim, on *)
(* the store, independently of the loops above.                            *)
(***************************************************************************)
StoredConfigs == Range(in_memory_db.api_configs)

Tier1(model) ==
    {<<c, c.model_mappings[model]>> :
       c \in {x \in StoredConfigs : /\ model \in DOMAIN x.model_mappings
                                    /\ x.model_mappings[model] \in x.models}}

Tier2(model) ==
    IF model \notin DOMAIN in_memory_db.model_mappings THEN {}
    ELSE LET vm == in_memory_db.model_mappings[model]
         IN  {<<c, vm[c.vendor]>> :
                c \in {x \in StoredConfigs : /\ x.vendor \in DOMAIN vm
                                             /\ vm[x.vendor] \in x.models}}

Tier3(model) == {<<c, model>> : c \in {x \in StoredConfigs : model \in x.models}}

FirstNonEmptyTier(model) ==
    IF Tier1(model) # {} THEN Tier1(model)
    ELSE IF Tier2(model) # {} THEN Tier2(model)
    ELSE Tier3(model)

\* C1: a resolution returns a pair of the first non-empty tier (local
\* mapping, then global vendor mapping, then direct match), never a pair
\* whose actual model the config does not support, and fails with NotFound
\* exactly when the three tiers are empty.
C1_ThreeTierPrecedence ==
    res.done =>
        /\ res.found <=> FirstNonEmptyTier(res.model) # {}
        /\ res.found => <<res.config, res.actual>> \in FirstNonEmptyTier(res.model)
        /\ res.found => res.actual \in res.config.models
        /\ ~res.found <=>
             (Tier1(res.model) = {} /\ Tier2(res.model) = {} /\ Tier3(res.model) = {})

\* C1 witness: a local mapping with an unsupported target was skipped and the
\* result came from tier 2 although tier 3 was non-empty too.
C1_Witness ==
    /\ res.done /\ res.found
    /\ \E c \in StoredConfigs :
          /\ res.model \in DOMAIN c.model_mappings
          /\ c.model_mappings[res.model] \notin c.models
    /\ Tier1(res.model) = {}
    /\ Tier2(res.model) # {}
    /\ Tier3(res.model) # {}
    /\ <<res.config, res.actual>> \notin Tier3(res.model)

\* The model is a key of the own model_mappings of some stored config.
InSomeLocalMapping(model) ==
    \E c \in StoredConfigs : model \in DOMAIN c.model_mappings

\* The same, with the mapped name supported by that config.
InSomeConsistentLocalMapping(model) ==
    \E c \in StoredConfigs :
        model \in DOMAIN c.model_mappings /\ c.model_mappings[model] \in c.models

\* The result is a config-local candidate: the returned config maps the
\* requested name itself, to the returned actual model.
ResultIsLocal ==
    /\ res.found
    /\ res.config \in StoredConfigs
    /\ res.model \in DOMAIN res.config.model_mappings
    /\ res.actual = res.config.model_mappings[res.model]

\* C2 as stated: for a name present in some config's local model_mappings,
\* tier 1 fires and the result is a config-local candidate.
C2_Original_AnyLocalMappingFires ==
    (res.done /\ InSomeLocalMapping(res.model)) => ResultIsLocal

\* C2 amended: for a name present in the local model_mappings of some
\* config whose models contain the mapped actual model, tier 1 fires: the
\* result is a config-local candidate, never one of tier 2 or tier 3.
C2_ConsistentLocalMappingFires ==
    (res.done /\ InSomeConsistentLocalMapping(res.model)) => ResultIsLocal

\* C2 witness: tier 1 fired although the global mapping and a direct match
\* offered other pairs.
C2_Witness ==
    /\ res.done
    /\ InSomeConsistentLocalMapping(res.model)
    /\ ResultIsLocal
    /\ Tier2(res.model) \ Tier1(res.model) # {}
    /\ Tier3(res.model) \ Tier1(res.model) # {}

(***************************************************************************)
(* Claims about the /v1 handler.                                           *)
(***************************************************************************)
\* The header lines are "exactly Bearer <token>" with a configured token: the
\* first Authorization line has two words, the scheme bearer and a token that
\* is the admin key or in the allow-list.
ValidTokens == ALLOWED_API_KEYS \cup {ADMIN_API_KEY}

IsAuthLine(line) == Lower(line.name) = "authorization"

Authorized(wire) ==
    \E i \in DOMAIN wire :
        /\ IsAuthLine(wire[i])
        /\ \A j \in 1..(i - 1) : ~IsAuthLine(wire[j])
        /\ Len(Split(wire[i].value)) = 2
        /\ Lower(Split(wire[i].value)[1]) = "bearer"
        /\ Split(wire[i].value)[2] \in ValidTokens

\* The model name a JSON body asks for, "" when it names none.
RequestedModel(body) ==
    IF body.kind = "json" THEN DictGet(JsonLoads(body), "model", StrVal(""))[2] ELSE ""

NoCandidate(model) == Tier1(model) = {} /\ Tier2(model) = {} /\ Tier3(model) = {}

IsProxyResp == resp.endpoint = "openai_proxy"

UpstreamCalls(ev) == {i \in DOMAIN ev : ev[i] = "upstream_call"}

\* The response to an authenticated /v1/chat/completions request whose model
\* no tier resolves.
UnknownModelResp ==
    /\ IsProxyResp
    /\ Authorized(resp.req.headers)
    /\ resp.req.path = "chat/completions"
    /\ RequestedModel(resp.req.body) # ""
    /\ NoCandidate(RequestedModel(resp.req.body))

\* C3 as stated: an authenticated /v1/chat/completions request whose model has
\* no candidate in any tier is answered 404, with no upstream call.
C3_UnknownModelIs404 ==
    UnknownModelResp => (resp.status = 404 /\ UpstreamCalls(resp.events) = {})

\* Every upstream call in the log comes after the auth check succeeded.
CallsFollowAuth(ev) ==
    \A i \in UpstreamCalls(ev) : \E j \in 1..(i - 1) : ev[j] = "auth_ok"

\* C4: an upstream call of a /v1 request is issued only after its auth check
\* succeeded; a request without a valid "Bearer <token>" header never goes
\* past the gate and ends 401 with no outbound call.
C4_NoUpstreamCallBeforeAuth ==
    /\ CallsFollowAuth(events)
    /\ pc # "idle" => Authorized(request.headers)
    /\ IsProxyResp =>
         /\ CallsFollowAuth(resp.events)
         /\ ~Authorized(resp.req.headers) =>
              /\ resp.status = 401
              /\ UpstreamCalls(resp.events) = {}
              /\ resp.call = NoCall

\* C4 witness: an unknown token asked for a model the store could serve and
\* was answered 401 without any call.
C4_Witness ==
    /\ IsProxyResp
    /\ resp.req.headers = <<AuthLine(BearerText("bad"))>>
    /\ resp.req.path = "chat/completions"
    /\ ~NoCandidate(RequestedModel(resp.req.body))
    /\ resp.status = 401
    /\ UpstreamCalls(resp.events) = {}

\* The gate of /v1 turned the request away: 401, before anything else.
GateRejected(r) == r.status = 401 /\ r.kind = "http_exception" /\ r.events = <<>>

\* The request went past the gate of /v1.
GatePassed(ev) == ev # <<>> /\ ev[1] = "auth_ok"

\* C5: the gate of /v1 lets a request proceed if and only if its
\* Authorization header is "Bearer <token>" (two words, the first the bearer
\* scheme in any letter case) and the token is the admin key or in the
\* allow-list; every other request is answered 401.
C5_GatePassesExactlyValidBearer ==
    /\ pc # "idle" => (Authorized(request.headers) /\ GatePassed(events))
    /\ IsProxyResp =>
         /\ Authorized(resp.req.headers) <=> GatePassed(resp.events)
         /\ ~Authorized(resp.req.headers) <=> GateRejected(resp)

\* C5 witness: three words ending with a valid token were answered 401.
C5_Witness ==
    /\ IsProxyResp
    /\ "k1" \in ALLOWED_API_KEYS
    /\ resp.req.headers = <<AuthLine(<<"Bearer", SP, "bad", SP, "k1">>)>>
    /\ GateRejected(resp)

(***************************************************************************)
(* Claims about who may use which endpoint.                                *)
(***************************************************************************)
AdminEndpoints ==
    {"create_config", "update_config", "list_configs", "get_config", "delete_config",
     "create_model_mapping", "list_model_mappings", "delete_model_mapping"}

\* The token of a "Bearer <token>" Authorization line, "" when the request
\* carries no such line.
BearerToken(wire) ==
    LET lines == {i \in DOMAIN wire : IsAuthLine(wire[i])}
        first == CHOOSE i \in lines : \A j \in lines : i <= j
        parts == Split(wire[first].value)
    IN  IF lines = {} THEN ""
        ELSE IF Len(parts) = 2 /\ Lower(parts[1]) = "bearer" THEN parts[2]
        ELSE ""

CookieOf(req) == IF "cookie" \in DOMAIN req THEN req.cookie ELSE ""

\* C6 as stated: on the administrative endpoints the bearer token decides: the
\* admin key is let in, an allow-listed key that is not the admin key is
\* answered 403.
C6_AdminPathsDecidedByBearer ==
    resp.endpoint \in AdminEndpoints =>
        LET token == BearerToken(resp.req.headers)
        IN  /\ (token # "" /\ token = ADMIN_API_KEY) => resp.status \notin {401, 403}
            /\ (token \in ALLOWED_API_KEYS /\ token # ADMIN_API_KEY) => resp.status = 403

\* The only credential of the request is an allow-listed key that is not the
\* admin key: it is the bearer token, and there is no auth_key cookie.
OnlyNonAdminKey(req) ==
    /\ CookieOf(req) = ""
    /\ BearerToken(req.headers) \in ALLOWED_API_KEYS
    /\ BearerToken(req.headers) # ADMIN_API_KEY

\* The items of a JSON response that carry data of a stored config.
ConfigItems == {"config", "configs", "mapping"}

\* The response gives the caller data of a stored config: an item of its JSON
\* body does, or the call made for it carried the config's api_key to an
\* address other than the config's own.
Discloses(r) ==
    \/ /\ r.kind = "json"
       /\ \E i \in DOMAIN r.body : r.body[i][1] \in ConfigItems
    \/ /\ r.call # NoCall
       /\ r.call.url # TargetUrl(r.call.config.base_url)
       /\ "Authorization" \in DOMAIN r.call.headers
       /\ r.call.headers["Authorization"] = BearerText(r.call.config.api_key)

\* C7 as stated: a request whose only credential is an allow-listed non-admin
\* key leaves api_configs and model_mappings as they were and is answered
\* with no data of a stored config, on every endpoint.
C7_NonAdminKeyNeitherReadsNorMutates ==
    [][(resp'.endpoint # "" /\ OnlyNonAdminKey(resp'.req)) =>
          (in_memory_db' = in_memory_db /\ ~Discloses(resp'))]_vars

NothingConfigured == ALLOWED_API_KEYS = {} /\ ADMIN_API_KEY = ""

EmptyStore == [api_configs |-> <<>>, model_mappings |-> EmptyDict]

\* C8: with an empty allow-list and an empty admin key, every request to an
\* endpoint behind a gate is answered 401 whatever its Authorization header
\* and cookie, no request goes past its gate, no upstream call is made and
\* the store is left as it was.
C8_FailClosed ==
    NothingConfigured =>
        /\ pc = "idle"
        /\ call = NoCall
        /\ events = <<>>
        /\ in_memory_db = EmptyStore
        /\ resp # NoResp =>
             /\ resp.status = 401
             /\ resp.kind = "http_exception"
             /\ resp.call = NoCall
             /\ resp.events = <<>>

\* C8 witness: nothing is configured and a request whose auth_key cookie is
\* the (empty) admin key, with a well-formed bearer header, was answered 401.
C8_Witness ==
    /\ NothingConfigured
    /\ resp.endpoint = "create_config"
    /\ resp.req.cookie = ADMIN_API_KEY
    /\ BearerToken(resp.req.headers) = "adm"
    /\ resp.status = 401
    /\ in_memory_db = EmptyStore

(***************************************************************************)
(* Claims about the outbound call.                                         *)
(***************************************************************************)
\* The /v1 request whose call is prepared or was made, with that call.
Forwarded ==
    IF pc \notin {"idle", "body"} THEN [req |-> request, call |-> call]
    ELSE [req |-> resp.req, call |-> resp.call]

IsForwarded == Forwarded.call # NoCall /\ (pc # "idle" \/ IsProxyResp)

\* The items of a dict other than "model", in order.
OtherItems(d) == SelectSeq(d, LAMBDA item : item[1] # "model")

\* C9: the outbound body's model is the actual model of a pair resolution
\* returns for the requested model; when it is the requested model the
\* outbound body is the inbound body byte for byte, otherwise the outbound
\* body is a JSON object with the same items but for "model".
C9_OutboundModelIsActual ==
    IsForwarded =>
        LET inbound == Forwarded.req.body
            outbound == Forwarded.call.body
            model == RequestedModel(inbound)
            actual == Forwarded.call.actual_model
        IN  /\ <<Forwarded.call.config, actual>> \in FirstNonEmptyTier(model)
            /\ outbound.kind = "json"
            /\ DictGet(JsonLoads(outbound), "model", StrVal("")) = StrVal(actual)
            /\ actual = model => outbound = inbound
            /\ actual # model =>
                 OtherItems(JsonLoads(outbound)) = OtherItems(JsonLoads(inbound))

\* C9 witness: a compact body with items around "model" was re-encoded for a
\* mapped model, to a text of another length.
C9_Witness ==
    /\ IsForwarded
    /\ RequestedModel(Forwarded.req.body) = "chat-fast"
    /\ Forwarded.call.actual_model = "gpt-x"
    /\ Len(OtherItems(JsonLoads(Forwarded.req.body))) = 2
    /\ Forwarded.call.body # Forwarded.req.body
    /\ BodyLen(Forwarded.call.body) # BodyLen(Forwarded.req.body)

\* The names of the dict that read name in lower case.
Variants(d, name) == {k \in DOMAIN d : Lower(k) = name}

\* C10: the outbound headers hold exactly one Authorization header, of value
\* "Bearer <api_key of the selected config>", exactly one Content-Length
\* header, of value the length of the outbound body, and no Host header, the
\* names compared without regard to case; the caller's token is in no
\* outbound Authorization header.
C10_OneAuthorizationOneContentLength ==
    IsForwarded =>
        LET h == Forwarded.call.headers
            body == Forwarded.call.body
        IN  /\ Cardinality(Variants(h, "authorization")) = 1
            /\ \A k \in Variants(h, "authorization") :
                 /\ h[k] = <<"Bearer", SP, Forwarded.call.config.api_key>>
                 /\ BearerToken(Forwarded.req.headers) \notin Range(h[k])
            /\ Cardinality(Variants(h, "content-length")) = 1
            /\ \A k \in Variants(h, "content-length") : h[k] = <<ToString(BodyLen(body))>>
            /\ Variants(h, "host") = {}

\* C10 witness: the request spelt each of the three names three ways, its
\* Content-Length lines were all wrong for the re-encoded body, and another
\* header of it went out untouched.
C10_Witness ==
    /\ IsForwarded
    /\ Cardinality({i \in DOMAIN Forwarded.req.headers :
                      IsAuthLine(Forwarded.req.headers[i])}) = 3
    /\ Cardinality({i \in DOMAIN Forwarded.req.headers :
                      Lower(Forwarded.req.headers[i].name) = "content-length"}) = 3
    /\ Cardinality({i \in DOMAIN Forwarded.req.headers :
                      Lower(Forwarded.req.headers[i].name) = "host"}) = 2
    /\ Forwarded.call.body # Forwarded.req.body
    /\ "x-trace" \in DOMAIN Forwarded.call.headers
    /\ \A i \in DOMAIN Forwarded.req.headers :
         Forwarded.req.headers[i].value # <<ToString(BodyLen(Forwarded.call.body))>>

(***************************************************************************)
(* Claims about the target URL.                                            *)
(***************************************************************************)
\* str.endswith on a base_url: its last piece is that character.
EndsWith(base_url, ch) == Len(base_url) > 0 /\ base_url[Len(base_url)] = ch

\* The URL the rules give for a base_url.
UrlByRule(base_url) ==
    IF EndsWith(base_url, "#") THEN SubSeq(base_url, 1, Len(base_url) - 1)
    ELSE IF EndsWith(base_url, "/") THEN base_url \o <<"chat/completions">>
    ELSE base_url \o <<"/v1/chat/completions">>

\* C11: the URL of the call is given by the selected config's base_url alone,
\* whatever the request and the config's other fields: the base_url without
\* its last "#", else the base_url followed by chat/completions when it ends
\* with "/", else followed by /v1/chat/completions; a base_url ending in "/#"
\* gives its prefix ending in "/" as it is.
C11_TargetUrlFromBaseUrl ==
    IsForwarded =>
        LET base_url == Forwarded.call.config.base_url
            url == Forwarded.call.url
        IN  /\ url = UrlByRule(base_url)
            /\ (EndsWith(base_url, "#") /\ Len(base_url) > 1
                /\ base_url[Len(base_url) - 1] = "/") =>
                 (EndsWith(url, "/") /\ url \o <<"#">> = base_url)

\* C11 witness: a base_url ending in "/#" was used without its "#".
C11_Witness ==
    /\ IsForwarded
    /\ Forwarded.call.config.base_url = <<"https://a.example", "/", "#">>
    /\ Forwarded.call.url = <<"https://a.example", "/">>

(***************************************************************************)
(* Claims about the streaming relay.                                       *)
(***************************************************************************)
\* The completed response is that of a streamed request.
IsStreamResp == IsProxyResp /\ resp.kind \in {"stream", "stream_aborted"}

\* The generator's client is closed once the stream has ended.
ClientClosedAtEnd ==
    IsStreamResp =>
        resp.relay.client = IF UpstreamCalls(resp.events) = {} THEN "none" ELSE "closed"

\* Once the caller has disconnected, the request ends with what was read and
\* yielded until then.
NothingReadAfterDisconnect ==
    pc = "disconnected" =>
        /\ pc' = "idle"
        /\ resp'.relay.got = relay.got
        /\ resp'.relay.sent = relay.sent

\* C12: a relay that has opened the upstream client closes it, however it
\* ends (the upstream stream ends, the upstream answers a non-success status,
\* the transport fails before or during the stream, the caller disconnects),
\* and reads no chunk once the caller has disconnected.
C12_ClientAlwaysClosed ==
    /\ []ClientClosedAtEnd
    /\ [][NothingReadAfterDisconnect]_vars
    /\ (relay.client = "open") ~> (pc = "idle" /\ IsStreamResp /\ resp.relay.client = "closed")

\* C12 witness: the caller left after one chunk of a stream that could have
\* gone on, and the client was closed.
C12_Witness ==
    /\ IsProxyResp
    /\ resp.kind = "stream_aborted"
    /\ Len(resp.relay.got) = 1
    /\ Len(resp.relay.got) < MaxChunks
    /\ resp.relay.client = "closed"

\* s is the beginning of t.
IsPrefix(s, t) == Len(s) <= Len(t) /\ SubSeq(t, 1, Len(s)) = s

\* The transport failed during the request.
TransportFailed(ev) == "transport_error" \in Range(ev)

\* The places of the synthetic error event among the chunks yielded.
SseErrors(sent) == {i \in DOMAIN sent : sent[i] = SseError}

\* A streamed request is answered by a stream; after a transport failure the
\* stream holds one synthetic error event, as its last chunk; otherwise none.
OneErrorEventOnFailure ==
    (IsProxyResp /\ resp.call.is_stream) =>
        /\ IsStreamResp
        /\ resp.status = 200
        /\ IF TransportFailed(resp.events)
           THEN SseErrors(resp.relay.sent) = {Len(resp.relay.sent)}
           ELSE SseErrors(resp.relay.sent) = {}

\* What has been yielded to the caller stays yielded.
YieldedStaysYielded ==
    pc \in {"connecting", "reading_error", "relaying", "disconnected"} =>
        IsPrefix(relay.sent, IF pc' = "idle" THEN resp'.relay.sent ELSE relay'.sent)

\* C13: a transport failure of a streamed call, while connecting or after any
\* number of chunks, is not raised to the caller: the chunks yielded stay
\* yielded and are followed by exactly one synthetic SSE error event, the last
\* chunk of the stream; a stream without a failure holds no such event.
C13_OneSyntheticErrorEvent ==
    /\ []OneErrorEventOnFailure
    /\ [][YieldedStaysYielded]_vars

\* C13 witness: the transport failed after two chunks were relayed; the
\* stream is the two chunks and the error event.
C13_Witness ==
    /\ IsStreamResp
    /\ TransportFailed(resp.events)
    /\ resp.relay.got = <<"data: 1\n\n", "data: 2\n\n">>
    /\ resp.relay.sent = <<"data: 1\n\n", "data: 2\n\n", SseError>>

\* The upstream's first answer had a non-success status.
NonSuccess(ev) == "status_error" \in Range(ev)

\* The error body was read whole: neither did the transport fail nor the
\* caller leave while it was read.
ErrorBodyRead(ev) ==
    NonSuccess(ev) /\ ~TransportFailed(ev) /\ "disconnect" \notin Range(ev)

\* C14: when the upstream's first answer to a streamed call has a non-success
\* status, nothing is relayed before the error body is read; once it is read
\* whole, the stream is that body, once, as it came, and ends; no streamed
\* chunk is relayed before or after it.
C14_ErrorBodyEmittedOnce ==
    /\ (pc # "idle" /\ NonSuccess(events)) =>
         (pc \in {"reading_error", "disconnected"} /\ relay.got = <<>> /\ relay.sent = <<>>)
    /\ (IsStreamResp /\ NonSuccess(resp.events)) =>
         /\ Range(resp.relay.sent) \cap StreamChunks = {}
         /\ ErrorBodyRead(resp.events) =>
              /\ resp.kind = "stream"
              /\ resp.relay.got = <<ErrorBody>>
              /\ resp.relay.sent = <<ErrorBody>>
              /\ resp.relay.client = "closed"

\* C14 witness: the upstream answered 429 and its error body is the stream.
C14_Witness ==
    /\ IsStreamResp
    /\ ErrorBodyRead(resp.events)
    /\ resp.relay.sent = <<ErrorBody>>

\* The bytes of the chunks, one after the other.
RECURSIVE Concat(_)
Concat(chunks) == IF chunks = <<>> THEN "" ELSE Head(chunks) \o Concat(Tail(chunks))

\* The chunks yielded, without the synthetic error event that may end them.
YieldedChunks(sent) == SelectSeq(sent, LAMBDA c : c # SseError)

\* The upstream answered the streamed call with a success status.
Streaming(ev) == "status_ok" \in Range(ev)

\* C15: while and after a stream with a success status is relayed, the bytes
\* yielded to the caller are the bytes received from the upstream so far, in
\* order, nothing added, dropped, repeated or moved (an empty chunk is not
\* yielded, which leaves the bytes as they are); after a failure the chunks
\* yielded before the error event are those received before it.
C15_YieldedEqualsReceived ==
    /\ pc \in {"relaying", "disconnected"} =>
         /\ Concat(relay.sent) = Concat(relay.got)
         /\ relay.sent = SelectSeq(relay.got, LAMBDA c : c # "")
    /\ (IsStreamResp /\ Streaming(resp.events)) =>
         /\ Concat(YieldedChunks(resp.relay.sent)) = Concat(resp.relay.got)
         /\ YieldedChunks(resp.relay.sent) = SelectSeq(resp.relay.got, LAMBDA c : c # "")
         /\ ~TransportFailed(resp.events) => resp.relay.sent = YieldedChunks(resp.relay.sent)
         /\ TransportFailed(resp.events) =>
              resp.relay.sent = Append(YieldedChunks(resp.relay.sent), SseError)

\* C15 witness: a stream as long as the bound allows, one chunk of it empty,
\* ended and was relayed without the empty chunk, byte for byte.
C15_Witness ==
    /\ IsStreamResp
    /\ "upstream_end" \in Range(resp.events)
    /\ Len(resp.relay.got) = MaxChunks
    /\ "" \in Range(resp.relay.got)
    /\ Len(resp.relay.sent) = MaxChunks - 1
    /\ Concat(resp.relay.sent) = Concat(resp.relay.got)

(***************************************************************************)
(* Claims about the buffered relay.                                        *)
(***************************************************************************)
\* The completed response is that of a buffered call that was issued.
IsBufferedResp ==
    IsProxyResp /\ resp.call # NoCall /\ ~resp.call.is_stream

\* The buffered call failed: the transport did, or the reply's body was not
\* JSON.
CallFailed(ev) == TransportFailed(ev) \/ "decode_error" \in Range(ev)

\* C16: a buffered call whose transport fails (no connection, timeout) or
\* whose reply cannot be decoded as JSON is answered with a JSON payload of
\* the fields error and message under a 5xx status (500 here), never with an
\* exception left unhandled.
C16_CallFailureIsEnvelope ==
    (IsBufferedResp /\ CallFailed(resp.events)) =>
        /\ resp.kind = "error_envelope"
        /\ resp.status = 500
        /\ [i \in DOMAIN resp.body |-> resp.body[i][1]] = <<"error", "message">>

\* C16 witness: the upstream replied 200 with a body that is not JSON and the
\* caller got the error payload.
C16_Witness ==
    /\ IsBufferedResp
    /\ "decode_error" \in Range(resp.events)
    /\ resp.kind = "error_envelope"
    /\ resp.body[2][2] = <<"reply">>

\* The step completes a buffered call on a reply with a JSON body, and the
\* response carries that reply's status, headers and body as they came.
RelaysVerbatim(up) ==
    (ProxyUpstream(up) /\ up.kind = "reply" /\ up.json) =>
        /\ resp'.kind = "relay"
        /\ resp'.status = up.status
        /\ resp'.wire.headers = up.headers
        /\ resp'.body = JsonLoads(up.body)
        /\ resp'.wire.text = up.body

\* C17 as stated: when a buffered call completes with a JSON body, the
\* response to the caller carries the upstream's status (2xx or not), the
\* upstream's JSON body unchanged and the upstream's headers.
C17_RelayedVerbatim ==
    [][\A up \in RelayUpstreams : RelaysVerbatim(up)]_vars

\* The response of /v1 to a request whose path is not "chat/completions".
OtherPathResp == IsProxyResp /\ pc = "idle" /\ resp.req.path # "chat/completions"

\* C18: an authenticated request to /v1/{path} with a path other than exactly
\* "chat/completions" is answered 404 whatever its method and its body (the
\* body is never awaited), with no resolution and no upstream call; without
\* valid credentials the same request is answered 401, the gate coming first.
C18_OtherPathIs404AfterGate ==
    /\ pc # "idle" => request.path = "chat/completions"
    /\ OtherPathResp =>
         /\ resp.call = NoCall
         /\ "resolve" \notin Range(resp.events)
         /\ "upstream_call" \notin Range(resp.events)
         /\ resp.kind = "http_exception"
         /\ resp.status = IF Authorized(resp.req.headers) THEN 404 ELSE 401

\* C18 witness: a DELETE of /v1/chat/completions/ (one slash too many) with a
\* valid key and a body that is not JSON was answered 404.
C18_Witness ==
    /\ OtherPathResp
    /\ resp.req.method = "DELETE"
    /\ resp.req.path = "chat/completions/"
    /\ resp.req.body = GarbageBody
    /\ Authorized(resp.req.headers)
    /\ resp.status = 404
    /\ resp.events = <<"auth_ok">>

\* The members of a JSON body named "model"; the last one is the one read.
ModelMembers(body) == {i \in DOMAIN body.members : body.members[i][1] = "model"}

\* The body is empty, or a JSON object whose model is missing or "".
NamesNoModel(body) ==
    \/ body = EmptyBody
    \/ /\ body.kind = "json"
       /\ \/ ModelMembers(body) = {}
          \/ \E i \in ModelMembers(body) :
               /\ \A j \in ModelMembers(body) : j <= i
               /\ body.members[i][2] = StrVal("")

\* C19: an authenticated request to /v1/chat/completions whose body is empty,
\* or is a JSON object whose model is missing or empty, is answered 400, no
\* resolution having been attempted and no upstream call issued.
C19_NoModelIs400 ==
    /\ (pc \notin {"idle", "body"}) => ~NamesNoModel(request.body)
    /\ ( /\ IsProxyResp
         /\ pc = "idle"
         /\ resp.req.path = "chat/completions"
         /\ Authorized(resp.req.headers)
         /\ NamesNoModel(resp.req.body) ) =>
           /\ resp.kind = "http_exception"
           /\ resp.status = 400
           /\ resp.events = <<"auth_ok">>
           /\ resp.call = NoCall

\* C19 witness: a body that names a model and then an empty one was answered
\* 400 on a store that serves the first name.
C19_Witness ==
    /\ IsProxyResp
    /\ pc = "idle"
    /\ resp.req.body = JsonBody("compact", <<<<"model", StrVal("chat-fast")>>,
                                              <<"model", StrVal("")>>>>)
    /\ GetRandomConfigForModel("chat-fast") # {}
    /\ resp.status = 400
    /\ resp.events = <<"auth_ok">>

Resolutions(ev) == {i \in DOMAIN ev : ev[i] = "resolve"}

\* The places in the log where the upstream call is seen to have failed.
CallFailures(ev) ==
    {i \in DOMAIN ev : ev[i] \in {"transport_error", "status_error", "decode_error"}}

\* One resolution at most, one upstream call at most and after it, and
\* neither of them after a failure.
SingleAttempt(ev) ==
    /\ Cardinality(Resolutions(ev)) <= 1
    /\ Cardinality(UpstreamCalls(ev)) <= 1
    /\ \A i \in UpstreamCalls(ev) : \E j \in Resolutions(ev) : j < i
    /\ \A i \in CallFailures(ev) :
         \A j \in Resolutions(ev) \cup UpstreamCalls(ev) : j < i

\* A request has a call if and only if its resolution selected a config.
CallIffSelected ==
    /\ UpstreamCalls(events) # {} => call # NoCall
    /\ (IsProxyResp /\ UpstreamCalls(resp.events) # {}) => resp.call # NoCall
    /\ (IsProxyResp /\ resp.call = NoCall) => UpstreamCalls(resp.events) = {}

\* The call prepared for the selected config is the call of the request to
\* its end.
SelectedCallKept ==
    call # NoCall => (call' = call \/ (pc' = "idle" /\ resp'.call = call))

\* C20: a /v1 request resolves its model at most once and issues at most one
\* upstream call, to the config that resolution selected; when the call fails
\* (transport error, non-success status) or resolution fails, the request
\* ends and no other candidate is tried, other candidates or not.
C20_NoRetryAcrossConfigs ==
    /\ [](SingleAttempt(events) /\ SingleAttempt(resp.events) /\ CallIffSelected)
    /\ [][SelectedCallKept]_vars

\* C20 witness: the one call of a request failed in transport and the request
\* ended, while the store holds two candidates or more for its model.
C20_Witness ==
    /\ IsProxyResp
    /\ pc = "idle"
    /\ TransportFailed(resp.events)
    /\ Cardinality(UpstreamCalls(resp.events)) = 1
    /\ Cardinality({sel[1].id : sel \in GetRandomConfigForModel(RequestedModel(resp.req.body))}) >= 2
    /\ \E sel \in GetRandomConfigForModel(RequestedModel(resp.req.body)) :
         sel[1] = resp.call.config

\* C21: resolution and the handler of /v1 write nothing to the store: when
\* nothing but proxy requests runs (rejected, failed or relayed, streamed or
\* buffered, the model rewritten or not), every step leaves api_configs and
\* model_mappings as they were, hence any sequence of requests does.
C21_ProxyLeavesStoreUnchanged ==
    [][in_memory_db' = in_memory_db]_vars

\* C21 witness: a request whose model the global mapping rewrote was relayed
\* with the upstream's 200, on a store that holds the mapping and the config
\* used.
C21_Witness ==
    /\ IsProxyResp
    /\ pc = "idle"
    /\ resp.kind = "relay"
    /\ resp.status = 200
    /\ resp.call.actual_model # RequestedModel(resp.req.body)
    /\ resp.call.config \in StoredConfigs
    /\ resp.call.config.model_mappings = EmptyDict
    /\ RequestedModel(resp.req.body) \in DOMAIN in_memory_db.model_mappings

\* A failure response the handler of /v1 itself produced: an HTTPException it
\* raised or the payload of its except clause, not a relayed upstream reply.
GatewayFailure ==
    /\ IsProxyResp
    /\ pc = "idle"
    /\ resp.kind \in {"http_exception", "error_envelope"}
    /\ resp.status >= 400

\* The keys of a JSON body, in order.
BodyKeys(body) == [i \in DOMAIN body |-> body[i][1]]

\* C22 as stated: every failure response the gateway produces for a /v1
\* request (401/403 of the auth check, 404 of an unknown path or model, 500 of
\* a forwarding failure) has a JSON body of the shape {"error", "message"}.
C22_FailureBodyIsEnvelope ==
    GatewayFailure => BodyKeys(resp.body) = <<"error", "message">>

\* The model is in no local mapping and not in the global one, and some
\* stored config lists it among its models.
OnlyDirectlyServed(model) ==
    /\ ~InSomeLocalMapping(model)
    /\ model \notin DOMAIN in_memory_db.model_mappings
    /\ \E c \in StoredConfigs : model \in c.models

\* C23: for a model name that no config maps locally, that the global mapping
\* does not hold, and that some config lists in its models, resolution
\* succeeds and returns a stored config whose models contain the name,
\* together with the name itself as the actual model.
C23_DirectMatchReturnsNameUnchanged ==
    (res.done /\ OnlyDirectlyServed(res.model)) =>
        /\ res.found
        /\ res.config \in StoredConfigs
        /\ res.model \in res.config.models
        /\ res.actual = res.model

\* C23 witness: of two stored configs only the second lists the name, and it
\* was returned.
C23_Witness ==
    /\ res.done /\ res.found
    /\ OnlyDirectlyServed(res.model)
    /\ Len(in_memory_db.api_configs) = 2
    /\ res.model \notin in_memory_db.api_configs[1].models
    /\ res.config = in_memory_db.api_configs[2]
    /\ res.actual = "chat-fast"

\* The resolution succeeded and its result is one of the pairs in ps.
ResultIn(ps) == res.found /\ <<res.config, res.actual>> \in ps

\* C24: with tier 1 empty and the model in the global mapping, resolution
\* does not fail at tier 2 when no (vendor, model) pair of the entry matches a
\* config: it returns a direct match if there is one and NotFound otherwise;
\* when some pair matches, the result is a matching config paired with the
\* vendor's model, never a config that only matches directly, and every
\* matching config, several of one vendor included, is a possible result.
C24_GlobalMappingFallsThrough ==
    ( /\ res.done
      /\ Tier1(res.model) = {}
      /\ res.model \in DOMAIN in_memory_db.model_mappings ) =>
        IF Tier2(res.model) # {}
        THEN /\ ResultIn(Tier2(res.model))
             /\ Tier2(res.model) \subseteq GetRandomConfigForModel(res.model)
        ELSE IF Tier3(res.model) # {}
        THEN ResultIn(Tier3(res.model))
        ELSE ~res.found

\* C24 witness: the global entry names a vendor none of whose configs serves
\* the mapped model, and the config that lists the name itself was returned.
C24_Witness ==
    /\ res.done
    /\ Tier1(res.model) = {}
    /\ res.model \in DOMAIN in_memory_db.model_mappings
    /\ \E c \in StoredConfigs : c.vendor \in DOMAIN in_memory_db.model_mappings[res.model]
    /\ Tier2(res.model) = {}
    /\ ResultIn(Tier3(res.model))
    /\ res.actual = res.model

\* No two stored configs have the same id.
UniqueIds ==
    \A i, j \in DOMAIN in_memory_db.api_configs :
        i # j => in_memory_db.api_configs[i].id # in_memory_db.api_configs[j].id

\* The step leaves every stored config its id and its created_at.
IdentityKept ==
    /\ DOMAIN in_memory_db.api_configs' = DOMAIN in_memory_db.api_configs
    /\ \A i \in DOMAIN in_memory_db.api_configs :
         /\ in_memory_db.api_configs'[i].id = in_memory_db.api_configs[i].id
         /\ in_memory_db.api_configs'[i].created_at = in_memory_db.api_configs[i].created_at

\* C25 as stated: after any sequence of create_config, update_config and
\* delete_config no two stored configs share an id, two configs created in
\* the same clock second included, and update_config never changes the id or
\* the created_at of the config it updates.
C25_IdsUniqueAndImmutable ==
    /\ []UniqueIds
    /\ [][(resp'.endpoint = "update_config") => IdentityKept]_vars

\* The step is the resolution of the request in flight and it selected a
\* config.
Selects == pc = "body" /\ pc' \in {"upstream", "stream"}

\* The step is the resolution of the request in flight and it found nothing.
SelectsNothing == pc = "body" /\ pc' = "idle" /\ "resolve" \in Range(resp'.events)

\* Resolution reads the store as it is when it runs: what it selects is a
\* candidate on that store, hence a config stored then (none deleted before,
\* any created before), and it fails only when that store has no candidate.
ResolvesOnCurrentStore ==
    /\ Selects =>
         /\ call'.config \in StoredConfigs
         /\ <<call'.config, call'.actual_model>> \in
                FirstNonEmptyTier(RequestedModel(request.body))
    /\ SelectsNothing => FirstNonEmptyTier(RequestedModel(request.body)) = {}

\* Every candidate on the store read is a possible selection.
CandidatesEligible ==
    pc = "body" =>
        FirstNonEmptyTier(RequestedModel(request.body))
            \subseteq GetRandomConfigForModel(RequestedModel(request.body))

\* A request past its resolution keeps the call it prepared, whatever the
\* step, and ends with it.
CallKeptPastResolution ==
    (pc \notin {"idle", "body"}) =>
        IF pc' = "idle" THEN resp'.call = call ELSE call' = call

\* C26: while admin writes and proxy requests interleave, each resolution
\* reads the configs and mappings as they are when it runs: a config deleted
\* before is never selected, a config created before is eligible; and a
\* request past its resolution, a stream in flight included, keeps the url,
\* the api_key and the model it selected whatever the admin changes later.
C26_ResolutionReadsAfreshCallIsFixed ==
    /\ []CandidatesEligible
    /\ [][ResolvesOnCurrentStore /\ CallKeptPastResolution]_vars

\* C26 witness: a stream is being relayed to the caller for a config that
\* has been deleted since it was selected.
C26_Witness ==
    /\ pc = "relaying"
    /\ relay.sent # <<>>
    /\ call.config \notin StoredConfigs
    /\ call.url = TargetUrl(call.config.base_url)
    /\ call.headers["Authorization"] = BearerText(call.config.api_key)

====
